---------------------------- MODULE Spec2Model ----------------------------
(***************************************************************************)
(* A model of the Nutrient OpenClaw plugin: the sandboxed path resolver    *)
(* (src/files.ts), the request-body builder (src/files.ts), the JSONL      *)
(* credit ledger (src/credits.ts), the HTTP client (src/client.ts), the     *)
(* error formatter (src/errors.ts) and the tool adapters (src/tools/*.ts,  *)
(* registered by index.ts).                                                *)
(*                                                                         *)
(* Strings are sequences of one-character strings, so that the code's      *)
(* string operations (startsWith, split, replace) are modelled as they     *)
(* work and not as operations on path segments.  The ledger's file name    *)
(* and the URL schemes are written with a run of letters as one element;   *)
(* separators and dots stay elements of their own.                         *)
(*                                                                         *)
(* Numbers of credits are exact decimals counted in thousandths of a       *)
(* credit (Milli); a value rounded by round2 is counted in hundredths.     *)
(* Instants are integers (ticks since the epoch); toISOString of instants  *)
(* of one format orders as the instants do.                                *)
(***************************************************************************)
EXTENDS Integers, Sequences, FiniteSets, TLC

VARIABLES
    pathArg,     \* resolveReadPath: the filePath argument
    rootArg,     \* resolveReadPath: the sandboxDir argument
    pathRes,     \* resolveReadPath: what the call did
    refsArg,     \* buildFormData: the fileRefs map
    formRes,     \* buildFormData: what the call returned
    sandboxDir,  \* ctx.sandboxDir of the plugin instance
    creditsFile, \* JsonlCreditTracker.filePath, set by its constructor
    dirs,        \* the file system: the directories that exist
    files,       \* the file system: path -> content of each regular file
    now,         \* the system clock
    calls,       \* the number of tool invocations so far
    inflight,    \* tool invocations suspended at `await ctx.client.post`
    last,        \* the tool invocation that returned last, and what it did
    touched,     \* history: every path the plugin created or wrote
    logged,      \* history: the records log() appended, in order
    balanceRes,  \* what the last getBalance() returned
    usageRes,    \* what the last getUsage() returned
    apiKey,      \* config.apiKey || process.env.NUTRIENT_API_KEY, "" if neither
    checkRes,    \* what the last nutrient_check_credits returned
    fetchArg,    \* client.post: what fetch did, and the call's timeout
    postRes,     \* client.post: how the call settled
    differArgs,  \* assertOutputDiffersFromInput: its three arguments
    differRes,   \* assertOutputDiffersFromInput: what the call did
    requestArgs, \* watermark: the document and the image it is given
    requestRes,  \* watermark: the references and the body it assembled
    timer        \* client.post: the timer of the call

pathVars   == <<pathArg, rootArg, pathRes>>
formVars   == <<refsArg, formRes>>
fsVars     == <<sandboxDir, creditsFile, dirs, files>>
toolVars   == <<calls, inflight, last, touched>>
ledgerVars == <<now, logged, balanceRes, usageRes>>
probeVars  == <<fetchArg, postRes, differArgs, differRes, requestArgs,
                requestRes, timer>>
vars == <<pathArg, rootArg, pathRes, refsArg, formRes, sandboxDir, creditsFile,
          dirs, files, now, calls, inflight, last, touched, logged, balanceRes,
          usageRes, apiKey, checkRes, fetchArg, postRes, differArgs, differRes,
          requestArgs, requestRes, timer>>

Null == "null"

(***************************************************************************)
(* Strings                                                                 *)
(***************************************************************************)
SEP == "/"

\* String.prototype.startsWith
StartsWith(s, prefix) ==
    /\ Len(prefix) <= Len(s)
    /\ SubSeq(s, 1, Len(prefix)) = prefix

\* All strings over `alphabet` of length at most n
RECURSIVE StringsUpTo(_, _)
StringsUpTo(alphabet, n) ==
    IF n = 0 THEN {<<>>}
    ELSE LET shorter == StringsUpTo(alphabet, n - 1)
         IN  shorter \cup {Append(s, c) : s \in shorter, c \in alphabet}

(***************************************************************************)
(* node:path (POSIX)                                                       *)
(***************************************************************************)
\* process.cwd()
Cwd == <<"/", "s">>

\* s.split('/')
RECURSIVE SplitSep(_, _, _)
SplitSep(s, i, cur) ==
    IF i > Len(s) THEN <<cur>>
    ELSE IF s[i] = SEP THEN <<cur>> \o SplitSep(s, i + 1, <<>>)
    ELSE SplitSep(s, i + 1, Append(cur, s[i]))

Split(s) == SplitSep(s, 1, <<>>)

\* normalizeString of node:path, allowAboveRoot = false: "" and "." are
\* dropped, ".." removes the segment before it and is dropped at the root.
RECURSIVE NormalizeSegs(_, _, _)
NormalizeSegs(segs, i, stack) ==
    IF i > Len(segs) THEN stack
    ELSE IF segs[i] = <<>> \/ segs[i] = <<".">>
         THEN NormalizeSegs(segs, i + 1, stack)
    ELSE IF segs[i] = <<".", ".">>
         THEN NormalizeSegs(segs, i + 1,
                  IF stack = <<>> THEN stack
                  ELSE SubSeq(stack, 1, Len(stack) - 1))
    ELSE NormalizeSegs(segs, i + 1, Append(stack, segs[i]))

RECURSIVE JoinSegs(_)
JoinSegs(segs) ==
    IF segs = <<>> THEN <<>>
    ELSE <<SEP>> \o Head(segs) \o JoinSegs(Tail(segs))

\* An absolute string made canonical: "/" + the normalized segments
NormalizeAbs(s) ==
    LET segs == NormalizeSegs(Split(s), 1, <<>>)
    IN  IF segs = <<>> THEN <<SEP>> ELSE JoinSegs(segs)

IsAbsolute(s) == s # <<>> /\ s[1] = SEP

\* path.resolve(from, to): the rightmost absolute argument wins, then the
\* working directory
PathResolve2(from, to) ==
    IF IsAbsolute(to) THEN NormalizeAbs(to)
    ELSE IF IsAbsolute(from) THEN NormalizeAbs(from \o <<SEP>> \o to)
    ELSE NormalizeAbs(Cwd \o <<SEP>> \o from \o <<SEP>> \o to)

\* path.resolve(p)
PathResolve1(p) == PathResolve2(Cwd, p)

\* path.dirname of a resolved path
Dirname(p) ==
    LET segs == NormalizeSegs(Split(p), 1, <<>>)
    IN  IF Len(segs) <= 1 THEN <<SEP>>
        ELSE JoinSegs(SubSeq(segs, 1, Len(segs) - 1))

\* path.basename of a resolved path
Basename(p) ==
    LET segs == NormalizeSegs(Split(p), 1, <<>>)
    IN  IF segs = <<>> THEN <<>> ELSE segs[Len(segs)]

(***************************************************************************)
(* src/files.ts: resolveReadPath                                           *)
(***************************************************************************)
Ok(v) == [ok |-> TRUE, val |-> v, err |-> "none"]

\* throw new <kind>(...)
Throw(kind) == [ok |-> FALSE, val |-> <<>>, err |-> kind]

\* The sandbox test without the separator: a sibling whose name merely
\* starts with the root's name passes.
resolveReadPath_NoSep(filePath, sandbox) ==
    IF sandbox # <<>>
    THEN LET base     == PathResolve1(sandbox)
             resolved == PathResolve2(base, filePath)
         IN  IF resolved # base /\ ~StartsWith(resolved, base)
             THEN Throw("FileError")
             ELSE Ok(resolved)
    ELSE Ok(PathResolve1(filePath))

resolveReadPath_Unchecked(filePath, sandbox) ==
    IF sandbox # <<>>
    THEN Ok(PathResolve2(PathResolve1(sandbox), filePath))
    ELSE Ok(PathResolve1(filePath))

resolveReadPath(filePath, sandbox) ==
    IF sandbox # <<>>
    THEN LET base     == PathResolve1(sandbox)
             resolved == PathResolve2(base, filePath)
         IN  IF resolved # base /\ ~StartsWith(resolved, base \o <<SEP>>)
             THEN Throw("FileError")
             ELSE Ok(resolved)
    ELSE Ok(PathResolve1(filePath))

(***************************************************************************)
(* The path resolver on its own: every path string and sandbox root up to  *)
(* a length, over an alphabet that holds the separator, the dot and a name *)
(* character.                                                              *)
(***************************************************************************)
MaxPathLen == 5
MaxRootLen == 3

PathChars == {SEP, ".", "s"}
PathArgs  == StringsUpTo(PathChars, MaxPathLen)
\* <<>> is an absent (or empty) sandboxDir: `if (sandboxDir)` is false
RootArgs  == StringsUpTo(PathChars, MaxRootLen)

NotCalled == [called |-> FALSE, res |-> Throw("none")]
Called(r) == [called |-> TRUE, res |-> r]
NoUsage == [called |-> FALSE, period |-> "none", res |-> Throw("none")]

\* The variables a specification does not use keep these values.
IdlePath == pathArg = <<>> /\ rootArg = <<>> /\ pathRes = NotCalled
IdleForm == refsArg = <<>> /\ formRes = NotCalled
IdleFs ==
    sandboxDir = <<>> /\ creditsFile = <<>> /\ dirs = {} /\ files = <<>>
IdleTool == calls = 0 /\ inflight = <<>> /\ last = <<>> /\ touched = {}
IdleCheck == checkRes = NotCalled
IdleClient == fetchArg = <<>> /\ postRes = NotCalled /\ timer = "none"
IdleDiffer == differArgs = <<>> /\ differRes = NotCalled
IdleRequest == requestArgs = <<>> /\ requestRes = NotCalled
IdleProbe == IdleCheck /\ IdleClient /\ IdleDiffer /\ IdleRequest
IdleLedger ==
    now = 0 /\ logged = <<>> /\ balanceRes = NotCalled /\ usageRes = NoUsage

InitPath ==
    /\ pathArg \in PathArgs
    /\ rootArg \in RootArgs
    /\ pathRes = NotCalled
    /\ IdleForm /\ IdleFs /\ IdleTool /\ IdleLedger
    /\ apiKey = "key" /\ IdleProbe

\* A call of resolveReadPath(pathArg, rootArg)
ResolveRead ==
    /\ ~pathRes.called
    /\ pathRes' = Called(resolveReadPath(pathArg, rootArg))
    /\ UNCHANGED <<apiKey, checkRes, probeVars, pathArg, rootArg, formVars, fsVars, toolVars, ledgerVars>>

NextPath == ResolveRead

SpecPath == InitPath /\ [][NextPath]_vars

(***************************************************************************)
(* src/files.ts: buildFormData                                             *)
(*                                                                         *)
(* A FileReference is [key, name, form, buffer, loc]: form "file" has      *)
(* ref.file set (its buffer, and loc its path), form "url" has ref.url set *)
(* (loc).  A Map is the sequence of its entries [k, ref] in insertion      *)
(* order, with no key twice.  A FormData is the sequence of its fields.    *)
(***************************************************************************)
INSTRUCTIONS == <<"i", "n", "s", "t", "r", "u", "c", "t", "i", "o", "n", "s">>

\* JSON.stringify(instructions)
Stringify(x) == <<"json", x>>

JsonBody(instructions) ==
    [kind |-> "json", body |-> instructions, fields |-> <<>>]
FormDataBody(fields) ==
    [kind |-> "formdata", body |-> Null, fields |-> fields]

\* formData.append(name, value, filename)
Field(name, value, filename) ==
    [name |-> name, value |-> value, filename |-> filename]

\* the loop over fileRefs.entries(): a field for each entry with ref.file
RECURSIVE FileFields(_)
FileFields(fileRefs) ==
    IF fileRefs = <<>> THEN <<>>
    ELSE LET e == Head(fileRefs)
         IN  (IF e.ref.form = "file"
              THEN <<Field(e.k, e.ref.buffer, e.ref.name)>>
              ELSE <<>>) \o FileFields(Tail(fileRefs))

\* Without `fileRefs.size > 0`: every() of an empty map is true.
buildFormData_NoSizeTest(instructions, fileRefs) ==
    LET allUrls == \A i \in 1..Len(fileRefs) : fileRefs[i].ref.form = "url"
    IN  IF allUrls
        THEN JsonBody(instructions)
        ELSE FormDataBody(<<Field(INSTRUCTIONS, Stringify(instructions), Null)>>
                          \o FileFields(fileRefs))

buildFormData(instructions, fileRefs) ==
    LET allUrls == /\ Len(fileRefs) > 0
                   /\ \A i \in 1..Len(fileRefs) : fileRefs[i].ref.form = "url"
    IN  IF allUrls
        THEN JsonBody(instructions)
        ELSE FormDataBody(<<Field(INSTRUCTIONS, Stringify(instructions), Null)>>
                          \o FileFields(fileRefs))

(***************************************************************************)
(* The body builder on its own: every map of at most MaxRefs references    *)
(* over three keys, one of them the name of the instructions field.        *)
(***************************************************************************)
MaxRefs == 2

FormKeys == {INSTRUCTIONS, <<"a", "_", "p">>, <<"u">>}
FormInstructions == {"I1", "I2"}

LocalRef(key) ==
    [key |-> key, name |-> key, form |-> "file",
     buffer |-> <<"bytes", key>>, loc |-> <<SEP>> \o key]
UrlRef(url) ==
    [key |-> url, name |-> url, form |-> "url", buffer |-> Null, loc |-> url]

FormEntries ==
    {[k |-> key, ref |-> LocalRef(key)] : key \in FormKeys}
        \cup {[k |-> key, ref |-> UrlRef(key)] : key \in FormKeys}

RECURSIVE MapsUpTo(_)
MapsUpTo(n) ==
    IF n = 0 THEN {<<>>}
    ELSE LET shorter == MapsUpTo(n - 1)
         IN  shorter \cup
             {Append(m, e) : m \in shorter, e \in FormEntries}

HasDistinctKeys(m) ==
    \A i, j \in 1..Len(m) : m[i].k = m[j].k => i = j

InitForm ==
    /\ refsArg \in {[instructions |-> ins, fileRefs |-> m] :
                        ins \in FormInstructions,
                        m \in {x \in MapsUpTo(MaxRefs) : HasDistinctKeys(x)}}
    /\ formRes = NotCalled
    /\ IdlePath /\ IdleFs /\ IdleTool /\ IdleLedger
    /\ apiKey = "key" /\ IdleProbe

\* A call of buildFormData(instructions, fileRefs)
BuildForm ==
    /\ ~formRes.called
    /\ formRes' = Called(buildFormData(refsArg.instructions, refsArg.fileRefs))
    /\ UNCHANGED <<apiKey, checkRes, probeVars, refsArg, pathVars, fsVars, toolVars, ledgerVars>>

NextForm == BuildForm

SpecForm == InitForm /\ [][NextForm]_vars

(***************************************************************************)
(* node:fs, on the file system <<dirs, files>>.  A file's content is a     *)
(* sequence of tokens: a serialized ledger record, a line feed, or bytes   *)
(* that are no JSON text.  Each operation returns [ok, dirs, files].       *)
(***************************************************************************)
None == <<>>
Some(v) == <<v>>

NL == [t |-> "nl", v |-> None]
\* bytes that are not JSON: a document, an image, a torn write
Bytes == [t |-> "x", v |-> None]
\* JSON.stringify(record)
RecordText(record) == [t |-> "rec", v |-> Some(record)]

Fs(d, f) == [ok |-> TRUE, dirs |-> d, files |-> f]
FsError(d, f) == [ok |-> FALSE, dirs |-> d, files |-> f]

\* fs.existsSync
ExistsSync(d, f, p) == p \in d \/ p \in DOMAIN f

\* the directories on the way to p, and p itself
AncestorsAndSelf(p) ==
    LET segs == NormalizeSegs(Split(p), 1, <<>>)
    IN  {IF k = 0 THEN <<SEP>> ELSE JoinSegs(SubSeq(segs, 1, k)) :
            k \in 0..Len(segs)}

\* fs.mkdirSync(p, { recursive: true }): fails (ENOTDIR, EEXIST) when a
\* file stands on the way
MkdirRecursive(d, f, p) ==
    IF AncestorsAndSelf(p) \cap DOMAIN f # {}
    THEN FsError(d, f)
    ELSE Fs(d \cup AncestorsAndSelf(p), f)

PutFile(f, p, content) ==
    [q \in DOMAIN f \cup {p} |-> IF q = p THEN content ELSE f[q]]

\* fs.writeFileSync(p, data): fails (EISDIR, ENOENT, ENOTDIR) on a
\* directory or without a parent directory
WriteFileSync(d, f, p, data) ==
    IF p \in d \/ Dirname(p) \notin d
    THEN FsError(d, f)
    ELSE Fs(d, PutFile(f, p, data))

\* fs.appendFileSync(p, data); io = "fail" is a write the system refuses
\* (disk full, permissions)
AppendFileSync(d, f, p, data, io) ==
    IF io = "fail" \/ p \in d \/ Dirname(p) \notin d
    THEN FsError(d, f)
    ELSE Fs(d, PutFile(f, p, (IF p \in DOMAIN f THEN f[p] ELSE <<>>) \o data))

(***************************************************************************)
(* src/credits.ts: JsonlCreditTracker                                      *)
(*                                                                         *)
(* A CreditLogEntry is [operation, requestCost, remainingCredits,          *)
(* timestamp]: requestCost in thousandths of a credit, remainingCredits    *)
(* None (null or undefined) or Some(n), timestamp None (absent or "") or   *)
(* Some(instant).                                                          *)
(***************************************************************************)
\* '.nutrient-credits.jsonl', its runs of letters written as one element
CREDITS_FILENAME == <<".", "nutrient-credits", ".", "jsonl">>

\* constructor: path.join(dataDir || process.cwd(), CREDITS_FILENAME), as
\* node:fs then resolves it
LedgerPath(dataDir) ==
    PathResolve1((IF dataDir # <<>> THEN dataDir ELSE Cwd)
                 \o <<SEP>> \o CREDITS_FILENAME)

\* the record log() writes
LogRecord(entry, clock) ==
    [entry EXCEPT !.timestamp =
        IF entry.timestamp # None THEN entry.timestamp ELSE Some(clock)]

\* log(entry): a failed append is swallowed
log(d, f, ledger, entry, clock, io) ==
    LET r == AppendFileSync(d, f, ledger,
                 <<RecordText(LogRecord(entry, clock)), NL>>, io)
    IN  Fs(r.dirs, r.files)

\* content.split('\n')
RECURSIVE SplitLines(_, _, _)
SplitLines(content, i, cur) ==
    IF i > Len(content) THEN <<cur>>
    ELSE IF content[i].t = "nl"
         THEN <<cur>> \o SplitLines(content, i + 1, <<>>)
    ELSE SplitLines(content, i + 1, Append(cur, content[i]))

\* JSON.parse(line): the text of one record parses to it, anything else
\* throws
ParsesAsRecord(line) == Len(line) = 1 /\ line[1].t = "rec"

\* .filter((line) => line.trim()).map(JSON.parse or null).filter(non-null)
RECURSIVE ParseLines(_)
ParseLines(lines) ==
    IF lines = <<>> THEN <<>>
    ELSE (IF Head(lines) # <<>> /\ ParsesAsRecord(Head(lines))
          THEN <<Head(lines)[1].v[1]>>
          ELSE <<>>) \o ParseLines(Tail(lines))

\* One line that does not parse throws away the whole read.
AllLinesParse(lines) ==
    \A i \in 1..Len(lines) : lines[i] = <<>> \/ ParsesAsRecord(lines[i])

readEntries_AbortOnCorrupt(d, f, p) ==
        IF ~ExistsSync(d, f, p) \/ p \in d THEN <<>>
        ELSE IF AllLinesParse(SplitLines(f[p], 1, <<>>))
             THEN ParseLines(SplitLines(f[p], 1, <<>>))
             ELSE <<>>

\* readEntries(): no file, or a read that throws, is an empty ledger
readEntries(d, f, p) ==
        IF ~ExistsSync(d, f, p) THEN <<>>
        ELSE IF p \in d THEN <<>>
        ELSE ParseLines(SplitLines(f[p], 1, <<>>))

NoBalance == [found |-> FALSE, remaining |-> 0, asOf |-> 0]
Balance(e) ==
    [found |-> TRUE, remaining |-> e.remainingCredits[1], asOf |-> e.timestamp[1]]

\* The scan started at the oldest entry.
RECURSIVE ScanForward(_, _)
ScanForward(entries, i) ==
    IF i > Len(entries) THEN NoBalance
    ELSE IF entries[i].remainingCredits # None THEN Balance(entries[i])
    ELSE ScanForward(entries, i + 1)

getBalance_Oldest(d, f, ledger) ==
    ScanForward(readEntries(d, f, ledger), 1)

\* for (i = entries.length - 1; i >= 0; i--)
RECURSIVE ScanBackward(_, _)
ScanBackward(entries, i) ==
    IF i < 1 THEN NoBalance
    ELSE IF entries[i].remainingCredits # None THEN Balance(entries[i])
    ELSE ScanBackward(entries, i - 1)

\* getBalance()
getBalance(d, f, ledger) ==
    LET entries == readEntries(d, f, ledger)
    IN  ScanBackward(entries, Len(entries))

\* round2(n) = Math.round(n * 100) / 100 of n = num / den thousandths,
\* in hundredths: Math.round rounds a half up
Round2Ratio(num, den) == (2 * num + 10 * den) \div (20 * den)

\* round2 of a number of thousandths, in hundredths
round2(n) == Round2Ratio(n, 1)

\* the instants of one day, and the days of the two trailing windows
DayTicks  == 2
WeekDays  == 7
MonthDays == 30

\* resolvePeriod(period) at the instant `clock` (local time is UTC)
resolvePeriod(period, clock) ==
    CASE period = "day"   -> [start |-> clock - (clock % DayTicks), end |-> clock]
      [] period = "week"  -> [start |-> clock - WeekDays * DayTicks, end |-> clock]
      [] period = "month" -> [start |-> clock - MonthDays * DayTicks, end |-> clock]
      [] period = "all"   -> [start |-> 0, end |-> clock]

\* The filter as if both ends of the range were left out.
RECURSIVE FilterRange_Exclusive(_, _)
FilterRange_Exclusive(entries, range) ==
    IF entries = <<>> THEN <<>>
    ELSE LET ts == Head(entries).timestamp[1]
         IN  (IF ts > range.start /\ ts < range.end
              THEN <<Head(entries)>> ELSE <<>>)
             \o FilterRange_Exclusive(Tail(entries), range)

\* entries.filter(...)
RECURSIVE FilterRange(_, _)
FilterRange(entries, range) ==
    IF entries = <<>> THEN <<>>
    ELSE LET ts == Head(entries).timestamp[1]
         IN  (IF ts >= range.start /\ ts <= range.end
              THEN <<Head(entries)>> ELSE <<>>)
             \o FilterRange(Tail(entries), range)

GroupIndex(groups, operation) ==
    {i \in 1..Len(groups) : groups[i].operation = operation}

\* The count left where the group was created.
RECURSIVE GroupEntries_CountOnce(_, _)
GroupEntries_CountOnce(filtered, groups) ==
    IF filtered = <<>> THEN groups
    ELSE LET e  == Head(filtered)
             at == GroupIndex(groups, e.operation)
         IN  IF at = {}
             THEN GroupEntries_CountOnce(Tail(filtered),
                      Append(groups, [operation |-> e.operation, count |-> 1,
                                      credits |-> e.requestCost]))
             ELSE LET i == CHOOSE j \in at : TRUE
                  IN  GroupEntries_CountOnce(Tail(filtered),
                          [groups EXCEPT
                              ![i].credits = @ + e.requestCost])

\* the loop that fills the `groups` map, kept in insertion order
RECURSIVE GroupEntries(_, _)
GroupEntries(filtered, groups) ==
    IF filtered = <<>> THEN groups
    ELSE LET e  == Head(filtered)
             at == GroupIndex(groups, e.operation)
         IN  IF at = {}
             THEN GroupEntries(Tail(filtered),
                      Append(groups, [operation |-> e.operation, count |-> 1,
                                      credits |-> e.requestCost]))
             ELSE LET i == CHOOSE j \in at : TRUE
                  IN  GroupEntries(Tail(filtered),
                          [groups EXCEPT ![i].count = @ + 1,
                                         ![i].credits = @ + e.requestCost])

\* .map(([operation, { count, credits }]) => ...)
BreakdownRow(g) ==
    [operation |-> g.operation,
     count     |-> g.count,
     credits   |-> round2(g.credits),
     avgCost   |-> Round2Ratio(g.credits, g.count)]

\* The sort as if it put a row before the rows of the same cost.
RECURSIVE InsertRow_BeforeEqual(_, _)
InsertRow_BeforeEqual(sorted, row) ==
    IF sorted = <<>> THEN <<row>>
    ELSE IF row.credits >= Head(sorted).credits THEN <<row>> \o sorted
    ELSE <<Head(sorted)>> \o InsertRow_BeforeEqual(Tail(sorted), row)

\* .sort((a, b) => b.credits - a.credits): a stable sort, here by insertion
RECURSIVE InsertRow(_, _)
InsertRow(sorted, row) ==
    IF sorted = <<>> THEN <<row>>
    ELSE IF row.credits > Head(sorted).credits THEN <<row>> \o sorted
    ELSE <<Head(sorted)>> \o InsertRow(Tail(sorted), row)

RECURSIVE SortRows(_, _)
SortRows(rows, sorted) ==
    IF rows = <<>> THEN sorted
    ELSE SortRows(Tail(rows), InsertRow(sorted, Head(rows)))

\* The total as if each entry's cost were rounded before it is added.
RECURSIVE SumCost_Rounded(_)
SumCost_Rounded(entries) ==
    IF entries = <<>> THEN 0
    ELSE 10 * round2(Head(entries).requestCost)
             + SumCost_Rounded(Tail(entries))

\* filtered.reduce((sum, e) => sum + e.requestCost, 0)
RECURSIVE SumCost(_)
SumCost(entries) ==
    IF entries = <<>> THEN 0
    ELSE Head(entries).requestCost + SumCost(Tail(entries))

\* getUsage(period)
getUsage(d, f, ledger, period, clock) ==
    LET range    == resolvePeriod(period, clock)
        filtered == FilterRange(readEntries(d, f, ledger), range)
        groups   == GroupEntries(filtered, <<>>)
    IN  [period          |-> range,
         totalCredits    |-> round2(SumCost(filtered)),
         totalOperations |-> Len(filtered),
         breakdown       |->
             SortRows([i \in 1..Len(groups) |-> BreakdownRow(groups[i])], <<>>)]

(***************************************************************************)
(* The ledger on its own: a JsonlCreditTracker over a data directory that  *)
(* exists or not, a clock that moves through a few instants, and a file    *)
(* that other writers may leave corrupt lines in.                          *)
(***************************************************************************)
MaxLines == 3

DataDir == <<SEP, "s">>

\* the instants at which the clock is read: the epoch, the same day, the
\* next day, and the first instants past the week and the month
Instants ==
    {0, 1, DayTicks, WeekDays * DayTicks + 1, MonthDays * DayTicks + 1}
\* an instant after every reading of the clock
TsFuture == MonthDays * DayTicks + 2

Entry(operation, cost, remaining, ts) ==
    [operation |-> operation, requestCost |-> cost,
     remainingCredits |-> remaining, timestamp |-> ts]

\* the entries handed to log(): three operations, two of them at the same
\* cost; 0.014 and 1 credits; a balance of 50, of 0 and none; the timestamp
\* left out, or given as the epoch or as a time to come
LogArgs ==
    {Entry("ocr", 14, Some(50), None),
     Entry("sign", 14, None, None),
     Entry("convert", 1000, Some(0), None),
     Entry("convert", 1000, Some(50), Some(0)),
     Entry("convert", 1000, None, Some(TsFuture))}

Periods == {"day", "week", "month", "all"}

LedgerContent ==
    IF creditsFile \in DOMAIN files THEN files[creditsFile] ELSE <<>>

\* the lines of the ledger file that end in a line feed
LedgerLines ==
    Cardinality({i \in 1..Len(LedgerContent) : LedgerContent[i].t = "nl"})

InitLedger ==
    /\ sandboxDir = DataDir
    /\ creditsFile = LedgerPath(DataDir)
    /\ dirs \in {{<<SEP>>}, {<<SEP>>, DataDir}}
    /\ files = <<>>
    /\ now = 0
    /\ logged = <<>>
    /\ balanceRes = NotCalled
    /\ usageRes = NoUsage
    /\ IdlePath /\ IdleForm /\ IdleTool
    /\ apiKey = "key" /\ IdleProbe

\* credits.log(entry); `logged` remembers the records that reached the file
Log(entry, io) ==
    /\ LedgerLines < MaxLines
    /\ LET r == log(dirs, files, creditsFile, entry, now, io)
       IN  /\ dirs' = r.dirs
           /\ files' = r.files
           /\ logged' = IF r.files # files
                        THEN Append(logged, LogRecord(entry, now))
                        ELSE logged
    /\ balanceRes' = NotCalled
    /\ usageRes' = NoUsage
    /\ UNCHANGED <<apiKey, checkRes, probeVars, sandboxDir, creditsFile, now, pathVars, formVars, toolVars>>

\* credits.getBalance()
GetBalance ==
    /\ balanceRes' = Called(getBalance(dirs, files, creditsFile))
    /\ usageRes' = NoUsage
    /\ UNCHANGED <<apiKey, checkRes, probeVars, fsVars, now, logged, pathVars, formVars, toolVars>>

\* credits.getUsage(period)
GetUsage(period) ==
    /\ usageRes' = [called |-> TRUE, period |-> period,
                    res |-> getUsage(dirs, files, creditsFile, period, now)]
    /\ balanceRes' = NotCalled
    /\ UNCHANGED <<apiKey, checkRes, probeVars, fsVars, now, logged, pathVars, formVars, toolVars>>

\* The clock moves on.
Tick(t) ==
    /\ t > now
    /\ now' = t
    /\ balanceRes' = NotCalled
    /\ usageRes' = NoUsage
    /\ UNCHANGED <<apiKey, checkRes, probeVars, fsVars, logged, pathVars, formVars, toolVars>>

\* Another writer (or a torn write) leaves a line that is no JSON at the
\* end of the ledger file.
CorruptLine ==
    /\ LedgerLines < MaxLines
    /\ creditsFile \in DOMAIN files
    /\ files' = PutFile(files, creditsFile, LedgerContent \o <<Bytes, NL>>)
    /\ balanceRes' = NotCalled
    /\ usageRes' = NoUsage
    /\ UNCHANGED <<apiKey, checkRes, probeVars, sandboxDir, creditsFile, dirs, now, logged, pathVars, formVars,
                   toolVars>>

NextLedger ==
    \/ \E entry \in LogArgs, io \in {"ok", "fail"} : Log(entry, io)
    \/ GetBalance
    \/ \E period \in Periods : GetUsage(period)
    \/ \E t \in Instants : Tick(t)
    \/ CorruptLine

SpecLedger == InitLedger /\ [][NextLedger]_vars

(***************************************************************************)
(* The tools (src/tools/*.ts, src/index.ts).  Each execute() runs up to    *)
(* `await ctx.client.post(...)`, and resumes when the transport answers.   *)
(* Invocations name their outputPath.                                      *)
(***************************************************************************)
\* 'http://' and 'https://', the scheme written as one element
HTTP == <<"http:", SEP, SEP>>
HTTPS == <<"https:", SEP, SEP>>

\* the characters of the model's file names that /[^a-zA-Z0-9]/ leaves
AlphaNumeric == {"a", "d", "i", "n", "o", "s", "u", "jsonl"}

\* fileName.replace(/[^a-zA-Z0-9]/g, '_')
FileKey(fileName) ==
    [i \in 1..Len(fileName) |->
        IF fileName[i] \in AlphaNumeric THEN fileName[i]
        ELSE IF fileName[i] = "nutrient-credits" THEN "nutrient_credits"
        ELSE "_"]

\* readFileReference: a URL is passed on unread, under itself as its key; a
\* local path is resolved in the sandbox and must be an existing regular
\* file, whose key is made of its base name
readFileReference(d, f, filePath, sandbox) ==
    IF StartsWith(filePath, HTTP) \/ StartsWith(filePath, HTTPS)
    THEN Ok([form |-> "url", loc |-> filePath, key |-> filePath,
             name |-> filePath, buffer |-> Null])
    ELSE LET resolvedPath == resolveReadPath(filePath, sandbox)
         IN  IF ~resolvedPath.ok THEN resolvedPath
             ELSE IF ~ExistsSync(d, f, resolvedPath.val)
                  THEN Throw("FileError")
             ELSE IF resolvedPath.val \notin DOMAIN f
                  THEN Throw("FileError")
             ELSE Ok([form |-> "file", loc |-> resolvedPath.val,
                      key |-> FileKey(Basename(resolvedPath.val)),
                      name |-> Basename(resolvedPath.val),
                      buffer |-> f[resolvedPath.val]])

\* resolveWritePath: [res, fs], the parent directories made on the way
resolveWritePath(d, f, filePath, sandbox) ==
    LET resolved == resolveReadPath(filePath, sandbox)
    IN  IF ~resolved.ok THEN [res |-> resolved, fs |-> Fs(d, f)]
        ELSE LET made == MkdirRecursive(d, f, Dirname(resolved.val))
             IN  [res |-> IF made.ok THEN resolved ELSE Throw("Error"),
                  fs |-> made]

\* fs.writeFileSync(resolved, Buffer.from(data)): the data are bytes
WriteData(target) ==
    [res |-> IF WriteFileSync(target.fs.dirs, target.fs.files,
                              target.res.val, <<Bytes>>).ok
             THEN target.res ELSE Throw("Error"),
     fs |-> WriteFileSync(target.fs.dirs, target.fs.files, target.res.val,
                          <<Bytes>>)]

\* writeResponseToFile: [res, fs]
WriteResolved(target) ==
    IF ~target.res.ok THEN target ELSE WriteData(target)

writeResponseToFile(d, f, outputPath, sandbox) ==
    WriteResolved(resolveWritePath(d, f, outputPath, sandbox))

\* assertOutputDiffersFromInput as if it compared the strings it was given
assertOutputDiffersFromInput_Strings(inputPath, outputPath, sandbox) ==
    LET resolvedInput == resolveReadPath(inputPath, sandbox)
        resolvedOutput == resolveReadPath(outputPath, sandbox)
    IN  IF ~resolvedInput.ok THEN resolvedInput
        ELSE IF ~resolvedOutput.ok THEN resolvedOutput
        ELSE IF inputPath = outputPath THEN Throw("FileError")
        ELSE Ok(<<>>)

assertOutputDiffersFromInput(inputPath, outputPath, sandbox) ==
    LET resolvedInput == resolveReadPath(inputPath, sandbox)
        resolvedOutput == resolveReadPath(outputPath, sandbox)
    IN  IF ~resolvedInput.ok THEN resolvedInput
        ELSE IF ~resolvedOutput.ok THEN resolvedOutput
        ELSE IF PathResolve1(resolvedInput.val) = PathResolve1(resolvedOutput.val)
             THEN Throw("FileError")
        ELSE Ok(<<>>)

\* client.post reads a billing header with parseFloat(value ?? '') || null
ParseCreditHeader(header) ==
    IF header = None \/ header[1] = 0 THEN None ELSE header

\* What fetch does: it resolves with a response (status, content type,
\* body, billing headers), rejects with a network error, or rejects with
\* an AbortError once the call's timer has aborted it.  A body is its text
\* and what JSON.parse makes of it: None when it throws, else the object's
\* `details` and `message`, each None or Some(text).
JsonObject(details, message) == Some([details |-> details, message |-> message])

Response(status, json, text, parsed, usage, remaining) ==
    [kind |-> "response", ok |-> status >= 200 /\ status <= 299,
     status |-> status, json |-> json, text |-> text, parsed |-> parsed,
     usage |-> usage, remaining |-> remaining]

NetworkError ==
    [kind |-> "network", ok |-> FALSE, status |-> 0, json |-> FALSE,
     text |-> "", parsed |-> None, usage |-> None, remaining |-> None]

AbortError == [NetworkError EXCEPT !.kind = "abort"]

\* new NutrientApiError(status, message, creditsUsed)
ThrowApi(status, message, creditsUsed) ==
    [ok |-> FALSE,
     val |-> [status |-> status, message |-> message,
              creditsUsed |-> creditsUsed],
     err |-> "NutrientApiError"]

\* new FileError(message), for the messages that are told apart
ThrowFile(message) ==
    [ok |-> FALSE, val |-> <<message>>, err |-> "FileError"]

\* `HTTP ${res.status}`
HttpStatusText(status) == <<"HTTP ", ToString(status)>>

\* the message of the error thrown for a non-2xx response
ErrorMessage(res) ==
    IF ~res.json THEN HttpStatusText(res.status)
    ELSE IF res.parsed = None
         THEN IF res.text = "" THEN HttpStatusText(res.status)
              ELSE <<res.text>>
    ELSE IF res.parsed[1].details # None THEN <<res.parsed[1].details[1]>>
    ELSE IF res.parsed[1].message # None THEN <<res.parsed[1].message[1]>>
    ELSE HttpStatusText(res.status)

\* client.post as if its catch block threw every rejection of fetch on
post_AbortThrownOn(reply, timeout) ==
    IF reply.kind \in {"abort", "network"} THEN Throw("Error")
    ELSE IF ~reply.ok
         THEN ThrowApi(reply.status, ErrorMessage(reply),
                       ParseCreditHeader(reply.usage))
    ELSE Ok([creditsUsed |-> ParseCreditHeader(reply.usage),
             creditsRemaining |-> ParseCreditHeader(reply.remaining)])

\* client.post(endpoint, body, opts), opts.timeout being None or Some(ms):
\* an abort throws the API error of status 0, any other rejection of fetch
\* is thrown on as it is, a non-2xx status throws an API error
post(reply, timeout) ==
    IF reply.kind = "abort"
    THEN ThrowApi(0, <<"Request timed out after ",
                       IF timeout = None THEN "undefined"
                       ELSE ToString(timeout[1]), "ms">>, None)
    ELSE IF reply.kind = "network" THEN Throw("Error")
    ELSE IF ~reply.ok
         THEN ThrowApi(reply.status, ErrorMessage(reply),
                       ParseCreditHeader(reply.usage))
    ELSE Ok([creditsUsed |-> ParseCreditHeader(reply.usage),
             creditsRemaining |-> ParseCreditHeader(reply.remaining)])

\* The ToolResponse execute() resolves with.  `settled` tells a promise
\* that resolved from one that rejected; output and error are None or
\* Some(text), a text being a sequence of pieces.
Success(output) ==
    [settled |-> "resolved", success |-> TRUE, output |-> Some(output),
     error |-> None]

Failure(error) ==
    [settled |-> "resolved", success |-> FALSE, output |-> None,
     error |-> Some(error)]

Rejected ==
    [settled |-> "rejected", success |-> FALSE, output |-> None,
     error |-> None]

\* formatError as if it passed on what is not one of the plugin's errors
formatError_Rethrows(e) ==
    CASE e.err = "NutrientApiError" ->
             Failure(<<"API error (", ToString(e.val.status), "): ">>
                     \o e.val.message)
      [] e.err = "FileError" ->
             Failure(<<"File error: ">>
                     \o (IF e.val = <<>> THEN <<"message">> ELSE e.val))
      [] e.err = "ConfigError" ->
             Failure(<<"Configuration error: ", "message">>)
      [] OTHER -> Rejected

\* formatError(e), e a thrown error: the message of an API error is the
\* one client.post made, any other message is one opaque piece
formatError(e) ==
    CASE e.err = "NutrientApiError" ->
             Failure(<<"API error (", ToString(e.val.status), "): ">>
                     \o e.val.message)
      [] e.err = "FileError" ->
             Failure(<<"File error: ">>
                     \o (IF e.val = <<>> THEN <<"message">> ELSE e.val))
      [] e.err = "ConfigError" ->
             Failure(<<"Configuration error: ", "message">>)
      [] OTHER -> Failure(<<"Unexpected error: ", "message">>)

AI_REDACT_TIMEOUT_MS == 300000

\* the opts.timeout a tool hands to client.post
TimeoutOf(tool) ==
    IF tool = "ai_redact" THEN Some(AI_REDACT_TIMEOUT_MS) ELSE None

Tools ==
    {"convert_to_pdf", "convert_to_image", "convert_to_office", "ocr",
     "watermark", "extract_text", "redact", "ai_redact", "sign"}

\* extract_text returns the text; every other tool writes outputPath
WritesOutput(tool) == tool # "extract_text"

\* the tools as if none of them refused a URL input
RequiresLocalFile_None(tool) == FALSE

\* sign and ai_redact refuse a URL input
RequiresLocalFile(tool) == tool \in {"sign", "ai_redact"}

\* extract_text, redact and ai_redact log under `creditsUsed != null`;
\* the others log `creditsUsed ?? 0`
LogsOnlyWhenBilled(tool) == tool \in {"extract_text", "redact", "ai_redact"}

\* the operation the tool logs
OperationName(tool) ==
    CASE tool = "extract_text" -> "extract-text"
      [] tool = "ai_redact" -> "ai-redact"
      [] OTHER -> tool

\* args.filePath when the host left it out: undefined where the schema
\* asks for a string
Undefined == <<"undefined">>

\* assertOutputDiffersFromInput(args.filePath, outputPath, sandboxDir):
\* path.resolve throws a TypeError on undefined
DiffersOrTypeError(filePath, outputPath, sandbox) ==
    IF filePath = Undefined THEN Throw("Error")
    ELSE assertOutputDiffersFromInput(filePath, outputPath, sandbox)

\* redact's arguments: the strategy with the field it requires ("complete")
\* or without it ("incomplete"); the other tools have no strategy
Strategies == {"complete", "incomplete"}
StrategyOf(tool, strategy) == IF tool = "redact" THEN strategy ELSE "none"

\* execute() as if it went to client.post with whatever it was given
BeforePost_Unchecked(d, f, tool, filePath, outputPath, strategy, imagePath, sandbox) ==
    IF filePath = Undefined THEN Throw("Error")
    ELSE Ok([form |-> "file", loc |-> filePath])

\* The image an invocation names besides its document: the watermark image
\* of sign (its graphic image is treated alike) and the image of an image
\* watermark, None or Some(path); the other tools take none.
ImageOf(tool, imagePath) ==
    IF tool \in {"sign", "watermark"} THEN imagePath ELSE None

\* the message of the FileError sign and ai_redact throw for a URL
LocalFileRequired(tool) ==
    IF tool = "sign" THEN "Signing requires a local file, not a URL"
    ELSE "AI redaction requires a local file, not a URL"

\* execute() once the image is read: sign refuses an image that is a URL
AfterImage(tool, fileRef, imageRef) ==
    IF ~imageRef.ok THEN imageRef
    ELSE IF tool = "sign" /\ imageRef.val.form # "file"
         THEN ThrowFile("Watermark image must be a local file")
    ELSE Ok(fileRef.val)

\* execute() once the document is read: sign and ai_redact refuse a URL,
\* then sign and watermark read their image, if they are given one
AfterRead(d, f, tool, image, sandbox, fileRef) ==
    IF ~fileRef.ok THEN fileRef
    ELSE IF RequiresLocalFile(tool) /\ fileRef.val.form # "file"
         THEN ThrowFile(LocalFileRequired(tool))
    ELSE IF image = None THEN Ok(fileRef.val)
    ELSE AfterImage(tool, fileRef,
                    readFileReference(d, f, image[1], sandbox))

\* execute() once the output is known to differ from the input
AfterDiffers(d, f, tool, filePath, image, sandbox, differs) ==
    IF ~differs.ok THEN differs
    ELSE AfterRead(d, f, tool, image, sandbox,
                   IF filePath = Undefined THEN Throw("Error")
                   ELSE readFileReference(d, f, filePath, sandbox))

\* execute(), up to ctx.client.post
BeforePost(d, f, tool, filePath, outputPath, strategy, imagePath, sandbox) ==
    IF StrategyOf(tool, strategy) = "incomplete" THEN Throw("FileError")
    ELSE AfterDiffers(d, f, tool, filePath, ImageOf(tool, imagePath), sandbox,
                      IF WritesOutput(tool)
                      THEN DiffersOrTypeError(filePath, outputPath, sandbox)
                      ELSE Ok(<<>>))

\* execute() as if ctx.client were made by makeClient whatever the key
BeforeFetch_AnyKey(d, f, tool, filePath, outputPath, strategy, imagePath, sandbox, key) ==
    IF ~BeforePost(d, f, tool, filePath, outputPath, strategy, imagePath, sandbox).ok
    THEN BeforePost(d, f, tool, filePath, outputPath, strategy, imagePath, sandbox)
    ELSE Ok(<<>>)

\* execute(), up to the await inside ctx.client.post: without an API key
\* ctx.client is the client whose post throws a ConfigError
BeforeFetch(d, f, tool, filePath, outputPath, strategy, imagePath, sandbox, key) ==
    IF ~BeforePost(d, f, tool, filePath, outputPath, strategy, imagePath, sandbox).ok
    THEN BeforePost(d, f, tool, filePath, outputPath, strategy, imagePath, sandbox)
    ELSE IF key = "" THEN Throw("ConfigError")
    ELSE Ok(<<>>)

\* the entry a tool hands to ctx.credits.log
LogEntry(tool, response) ==
    [operation |-> OperationName(tool),
     requestCost |-> IF response.creditsUsed = None
                     THEN 0 ELSE response.creditsUsed[1],
     remainingCredits |-> response.creditsRemaining,
     timestamp |-> None]

\* What execute() did after the await: the ToolResponse, the file system
\* it left, the records that reached the ledger file, and whether it
\* called log ("none", "appended", "failed").
Did(response, fs, appended, logs) ==
    [response |-> response, success |-> response.success, fs |-> fs,
     appended |-> appended, logs |-> logs]

\* ctx.credits.log as if it raised what appendFileSync raised
Logged_Raises(before, kept, record) ==
    IF kept.files # before.files
    THEN Did(Success(<<"output">>), kept, <<record>>, "appended")
    ELSE Did(formatError(Throw("Error")), kept, <<>>, "failed")

\* ctx.credits.log(entry) on the file system `before`, and the return
Logged(before, kept, record) ==
    IF kept.files # before.files
    THEN Did(Success(<<"output">>), kept, <<record>>, "appended")
    ELSE Did(Success(<<"output">>), kept, <<>>, "failed")

\* execute() as if it called ctx.credits.log whether the write worked or not
AfterWrite_LogsFirst(ledger, tool, response, written, clock, io) ==
    IF ~written.res.ok
    THEN Did(formatError(written.res),
             log(written.fs.dirs, written.fs.files, ledger,
                 LogEntry(tool, response), clock, io),
             <<>>, "none")
    ELSE IF LogsOnlyWhenBilled(tool) /\ response.creditsUsed = None
         THEN Did(Success(<<"output">>), written.fs, <<>>, "none")
    ELSE Logged(written.fs,
                log(written.fs.dirs, written.fs.files, ledger,
                    LogEntry(tool, response), clock, io),
                LogRecord(LogEntry(tool, response), clock))

\* execute(), after writeResponseToFile
AfterWrite(ledger, tool, response, written, clock, io) ==
    IF ~written.res.ok
    THEN Did(formatError(written.res), written.fs, <<>>, "none")
    ELSE IF LogsOnlyWhenBilled(tool) /\ response.creditsUsed = None
         THEN Did(Success(<<"output">>), written.fs, <<>>, "none")
    ELSE Logged(written.fs,
                log(written.fs.dirs, written.fs.files, ledger,
                    LogEntry(tool, response), clock, io),
                LogRecord(LogEntry(tool, response), clock))

\* execute() as if it wrote what it got before looking at how post settled
AfterResponse_WritesFirst(d, f, ledger, tool, outputPath, sandbox, response, clock, io) ==
    IF ~response.ok
    THEN Did(formatError(response),
             IF WritesOutput(tool)
             THEN writeResponseToFile(d, f, outputPath, sandbox).fs
             ELSE Fs(d, f),
             <<>>, "none")
    ELSE AfterWrite(ledger, tool, response.val,
                    IF WritesOutput(tool)
                    THEN writeResponseToFile(d, f, outputPath, sandbox)
                    ELSE [res |-> Ok(<<>>), fs |-> Fs(d, f)],
                    clock, io)

\* execute(), once client.post has settled
AfterResponse(d, f, ledger, tool, outputPath, sandbox, response, clock, io) ==
    IF ~response.ok
    THEN Did(formatError(response), Fs(d, f), <<>>, "none")
    ELSE AfterWrite(ledger, tool, response.val,
                    IF WritesOutput(tool)
                    THEN writeResponseToFile(d, f, outputPath, sandbox)
                    ELSE [res |-> Ok(<<>>), fs |-> Fs(d, f)],
                    clock, io)

\* execute(), from the await on; io tells whether appendFileSync works
AfterPost(d, f, ledger, tool, outputPath, sandbox, reply, clock, io) ==
    AfterResponse(d, f, ledger, tool, outputPath, sandbox,
                  post(reply, TimeoutOf(tool)), clock, io)

(***************************************************************************)
(* assertOutputDiffersFromInput called on its own                          *)
(***************************************************************************)
MaxDifferLen == 3

DifferPaths == StringsUpTo(PathChars, MaxDifferLen)
\* no sandbox, a relative root, the file system's root, a directory
DifferRoots == {<<>>, <<"s">>, <<SEP>>, <<SEP, "s">>}

InitDiffer ==
    /\ differArgs \in [input : DifferPaths, output : DifferPaths,
                       root : DifferRoots]
    /\ differRes = NotCalled
    /\ IdlePath /\ IdleForm /\ IdleFs /\ IdleTool /\ IdleLedger
    /\ apiKey = "key" /\ IdleCheck /\ IdleClient /\ IdleRequest

\* A call of assertOutputDiffersFromInput(input, output, root)
AssertDiffers ==
    /\ ~differRes.called
    /\ differRes' = Called(assertOutputDiffersFromInput(
                               differArgs.input, differArgs.output,
                               differArgs.root))
    /\ UNCHANGED <<apiKey, checkRes, fetchArg, postRes, differArgs, requestArgs,
                   requestRes, timer, pathVars, formVars,
                   fsVars, toolVars, ledgerVars>>

NextDiffer == AssertDiffers

SpecDiffer == InitDiffer /\ [][NextDiffer]_vars

(***************************************************************************)
(* client.post called on its own: fetch settles one way or another         *)
(***************************************************************************)
\* the bodies of a response: their text, and what JSON.parse makes of it
Bodies ==
    {[text |-> "", parsed |-> None],
     [text |-> "plain", parsed |-> None],
     [text |-> "{details,message}",
      parsed |-> JsonObject(Some("details"), Some("message"))],
     [text |-> "{details}", parsed |-> JsonObject(Some("details"), None)],
     [text |-> "{message}", parsed |-> JsonObject(None, Some("message"))],
     [text |-> "{}", parsed |-> JsonObject(None, None)]}

\* the billing headers: absent, or a number of thousandths of a credit
UsageHeaders == {None, Some(0), Some(1000)}
RemainingHeaders == {None, Some(0), Some(50)}

Responses ==
    {Response(status, json, body.text, body.parsed, usage, remaining) :
        status \in {200, 422}, json \in BOOLEAN, body \in Bodies,
        usage \in UsageHeaders, remaining \in RemainingHeaders}

Timeouts == {None, Some(AI_REDACT_TIMEOUT_MS)}

\* fetch rejects with an AbortError only when opts.timeout armed the timer
InitClient ==
    /\ fetchArg \in [reply : Responses \cup {NetworkError, AbortError},
                     timeout : Timeouts]
    /\ fetchArg.reply.kind = "abort" => fetchArg.timeout # None
    /\ postRes = NotCalled
    /\ IdlePath /\ IdleForm /\ IdleFs /\ IdleTool /\ IdleLedger
    /\ apiKey = "key" /\ IdleCheck /\ IdleDiffer /\ IdleRequest
    /\ timer = "none"

\* The timer of a call is "none" before the call, "unset" when post armed
\* none (timeoutId is undefined), then "armed", "fired" once its callback
\* has aborted the request, and "cleared" after clearTimeout.

\* `opts.timeout ? setTimeout(() => controller.abort(), opts.timeout)
\*               : undefined`
SetTimer(timeout) == IF timeout = None THEN "unset" ELSE "armed"

\* post as if it cleared the timer at the end of its try block
ClearTimer_AtEndOfTry(timeoutId, res) ==
    IF timeoutId = "unset" \/ ~res.ok THEN timeoutId ELSE "cleared"

\* `finally { if (timeoutId) clearTimeout(timeoutId); }`, res being how
\* post settles
ClearTimer(timeoutId, res) ==
    IF timeoutId = "unset" THEN "unset" ELSE "cleared"

\* client.post(endpoint, body, {timeout}) is called: up to `await fetch`
PostStart ==
    /\ ~postRes.called
    /\ timer = "none"
    /\ timer' = SetTimer(fetchArg.timeout)
    /\ UNCHANGED <<apiKey, checkRes, fetchArg, postRes, differArgs, differRes,
                   requestArgs, requestRes, pathVars, formVars, fsVars,
                   toolVars, ledgerVars>>

\* The timer's callback runs: while fetch is pending in the runs in which
\* fetch is to reject with the AbortError, and any time after post has
\* settled if the timer is still armed then.
TimeoutElapses ==
    /\ timer = "armed"
    /\ postRes.called \/ fetchArg.reply.kind = "abort"
    /\ timer' = "fired"
    /\ UNCHANGED <<apiKey, checkRes, fetchArg, postRes, differArgs, differRes,
                   requestArgs, requestRes, pathVars, formVars, fsVars,
                   toolVars, ledgerVars>>

\* fetch settles and post runs to its end, its finally block included
Post ==
    /\ ~postRes.called
    /\ timer # "none"
    /\ fetchArg.reply.kind = "abort" <=> timer = "fired"
    /\ postRes' = Called(post(fetchArg.reply, fetchArg.timeout))
    /\ timer' = ClearTimer(timer, post(fetchArg.reply, fetchArg.timeout))
    /\ UNCHANGED <<apiKey, checkRes, fetchArg, differArgs, differRes, requestArgs,
                   requestRes, pathVars, formVars,
                   fsVars, toolVars, ledgerVars>>

NextClient == PostStart \/ TimeoutElapses \/ Post

SpecClient == InitClient /\ [][NextClient]_vars

(***************************************************************************)
(* The plugin: tools invoked in a sandbox, one remote call in flight.      *)
(* `logged` remembers the records log() appended, `touched` the paths the  *)
(* plugin created or wrote, `last` the outcome of the latest invocation.   *)
(***************************************************************************)
MaxCalls == 1

SandboxRoot == <<SEP, "n", SEP, "s">>
InputFile == SandboxRoot \o <<SEP, "a">>

InputPaths == {<<"a">>, HTTP \o <<"u">>, Undefined}
OutputPaths == {<<"o">>, <<"a">>, <<".", ".", SEP, "o">>, CREDITS_FILENAME}

\* the transport's answers: a failure status, a network error, an abort,
\* or a success with its billing headers absent, zero, or 1 credit used
\* and 50 left
Replies ==
    {Response(402, TRUE, "body", JsonObject(Some("no credits"), None),
              None, None),
     NetworkError,
     AbortError,
     Response(200, FALSE, "pdf", None, None, None),
     Response(200, FALSE, "pdf", None, Some(0), Some(50)),
     Response(200, FALSE, "pdf", None, Some(1000), Some(50))}

\* what the transport did for an invocation: "uncalled" when execute()
\* failed before client.post, "unsent" when post threw before fetch, else
\* "success", "status" (a non-2xx status), "network" or "abort"
TransportOf(reply) ==
    IF reply.kind # "response" THEN reply.kind
    ELSE IF reply.ok THEN "success" ELSE "status"

Outcome(tool, filePath, outputPath, strategy, imagePath, response, appended, wrote, transport, logs) ==
    <<[tool |-> tool, filePath |-> filePath, outputPath |-> outputPath,
       strategy |-> StrategyOf(tool, strategy),
       imagePath |-> ImageOf(tool, imagePath),
       response |-> response,
       success |-> response.success, appended |-> appended, wrote |-> wrote,
       transport |-> transport, logs |-> logs]>>

\* a record an earlier session of the plugin logged
Earlier == Entry("ocr", 1000, Some(50), Some(0))

\* The plugin is registered with or without an API key, with a sandbox
\* directory that does not exist yet, nor its parent, or that exists and
\* holds a document, and the ledger of an earlier session or none.
Init ==
    /\ sandboxDir = SandboxRoot
    /\ creditsFile = LedgerPath(SandboxRoot)
    /\ \/ /\ dirs = {<<SEP>>}
          /\ files = <<>>
          /\ logged = <<>>
       \/ /\ dirs = AncestorsAndSelf(SandboxRoot)
          /\ files = PutFile(<<>>, InputFile, <<Bytes>>)
          /\ logged = <<>>
       \/ /\ dirs = AncestorsAndSelf(SandboxRoot)
          /\ files = PutFile(PutFile(<<>>, InputFile, <<Bytes>>),
                             LedgerPath(SandboxRoot),
                             <<RecordText(Earlier), NL>>)
          /\ logged = <<Earlier>>
    /\ now = 0
    /\ balanceRes = NotCalled
    /\ usageRes = NoUsage
    /\ calls = 0
    /\ inflight = <<>>
    /\ last = <<>>
    /\ touched = {}
    /\ IdlePath /\ IdleForm
    /\ apiKey \in {"key", ""}
    /\ IdleProbe

\* the invocation that is suspended in client.post, its timer armed or not
Call(tool, filePath, outputPath, strategy, imagePath) ==
    [tool |-> tool, filePath |-> filePath, outputPath |-> outputPath,
     strategy |-> StrategyOf(tool, strategy),
     imagePath |-> ImageOf(tool, imagePath), timeout |-> TimeoutOf(tool)]

\* A tool is invoked and runs up to its remote call, or fails before it:
\* at most `limit` invocations are in flight and `most` are made in all.
StartCall(limit, most, tool, filePath, outputPath, strategy, imagePath) ==
    /\ Len(inflight) < limit
    /\ calls < most
    /\ calls' = calls + 1
    /\ LET ready == BeforeFetch(dirs, files, tool, filePath, outputPath,
                                strategy, imagePath, sandboxDir, apiKey)
           out == IF WritesOutput(tool) THEN outputPath ELSE <<>>
       IN  IF ready.ok
           THEN /\ inflight' = Append(inflight,
                                     Call(tool, filePath, out, strategy,
                                          imagePath))
                /\ last' = <<>>
           ELSE /\ inflight' = inflight
                /\ last' = Outcome(tool, filePath, out, strategy, imagePath,
                                   formatError(ready), 0, {},
                                   IF BeforePost(dirs, files, tool, filePath,
                                                 outputPath, strategy,
                                                 imagePath, sandboxDir).ok
                                   THEN "unsent" ELSE "uncalled",
                                   "none")
    /\ balanceRes' = NotCalled
    /\ usageRes' = NoUsage
    /\ checkRes' = NotCalled
    /\ UNCHANGED <<apiKey, probeVars, fsVars, now, logged, touched, pathVars, formVars>>

Start(tool, filePath, outputPath) ==
    StartCall(1, MaxCalls, tool, filePath, outputPath, "complete", None)

\* the paths that exist or differ in <<d2, f2>> and not in <<d, f>>
Wrote(d, f, d2, f2) ==
    (d2 \ d) \cup {q \in DOMAIN f2 : q \notin DOMAIN f \/ f2[q] # f[q]}

\* the invocation returns: r is what execute() did after the await
Return(call, r, transport) ==
    /\ dirs' = r.fs.dirs
    /\ files' = r.fs.files
    /\ logged' = logged \o r.appended
    /\ touched' = touched \cup Wrote(dirs, files, r.fs.dirs, r.fs.files)
    /\ last' = Outcome(call.tool, call.filePath, call.outputPath,
                       call.strategy, call.imagePath, r.response,
                       Len(r.appended),
                       Wrote(dirs, files, r.fs.dirs, r.fs.files),
                       transport, r.logs)

\* the invocations in flight without the i-th
RemoveAt(q, i) == SubSeq(q, 1, i - 1) \o SubSeq(q, i + 1, Len(q))

\* The transport settles for the i-th invocation in flight and the tool
\* runs to its end.  fetch rejects with an AbortError only when the call's
\* timer was armed.
FinishCall(i, reply, io) ==
    /\ i \in 1..Len(inflight)
    /\ reply.kind = "abort" => inflight[i].timeout # None
    /\ Return(inflight[i],
              AfterPost(dirs, files, creditsFile, inflight[i].tool,
                        inflight[i].outputPath, sandboxDir, reply, now, io),
              TransportOf(reply))
    /\ inflight' = RemoveAt(inflight, i)
    /\ balanceRes' = NotCalled
    /\ usageRes' = NoUsage
    /\ checkRes' = NotCalled
    /\ UNCHANGED <<apiKey, probeVars, sandboxDir, creditsFile, now, calls, pathVars, formVars>>

Finish(reply, io) == FinishCall(1, reply, io)

\* nutrient_check_credits: action 'balance' or 'usage', or neither
CheckCredits(action, period) ==
    /\ inflight = <<>>
    /\ IF action = "balance"
       THEN /\ balanceRes' = Called(getBalance(dirs, files, creditsFile))
            /\ usageRes' = [called |-> TRUE, period |-> "week",
                            res |-> getUsage(dirs, files, creditsFile,
                                             "week", now)]
            /\ checkRes' = Called(Success(<<"output">>))
       ELSE IF action = "usage"
       THEN /\ balanceRes' = NotCalled
            /\ usageRes' = [called |-> TRUE, period |-> period,
                            res |-> getUsage(dirs, files, creditsFile,
                                             period, now)]
            /\ checkRes' = Called(Success(<<"output">>))
       ELSE /\ balanceRes' = NotCalled
            /\ usageRes' = NoUsage
            /\ checkRes' = Called(Failure(<<"Unknown action: ", action>>))
    /\ last' = <<>>
    /\ UNCHANGED <<apiKey, probeVars, fsVars, now, logged, calls, inflight, touched, pathVars,
                   formVars>>

Next ==
    \/ \E tool \in Tools, filePath \in InputPaths, outputPath \in OutputPaths :
           Start(tool, filePath, outputPath)
    \/ \E reply \in Replies, io \in {"ok", "fail"} : Finish(reply, io)
    \/ CheckCredits("balance", "week")
    \/ \E period \in Periods : CheckCredits("usage", period)
    \/ CheckCredits("invalid", "week")

Spec == Init /\ [][Next]_vars

\* setTimeout(() => controller.abort(), opts.timeout): the timer of the
\* invocation in flight, where one was armed, fires and fetch rejects
TimerFires == \E io \in {"ok", "fail"} : Finish(AbortError, io)

\* The plugin with its timers running: an armed timer fires unless the
\* transport settles first.  Nothing obliges the remote service to answer.
SpecTimers == Init /\ [][Next]_vars /\ WF_vars(TimerFires)

(***************************************************************************)
(* One invocation with any kind of input: a document, the sandbox          *)
(* directory itself, a path out of the sandbox, a URL, a URL with '..'     *)
(* segments, or no filePath at all; redact with or without the field its   *)
(* strategy requires; sign and watermark with or without an image.         *)
(***************************************************************************)
UrlWithDots ==
    HTTP \o <<"u", SEP, ".", ".", SEP, ".", ".", SEP, ".", ".">>

InvokeInputs ==
    {<<"a">>, <<".">>, <<".", ".", SEP, "a">>, HTTP \o <<"u">>, UrlWithDots,
     Undefined}

\* no image, the document as the image, an image that is not there, a URL
InvokeImages ==
    {None, Some(<<"a">>), Some(<<"i">>), Some(HTTP \o <<"u">>)}

\* the outputs of Spec, the sandbox itself, and a path through the document
InvokeOutputs == OutputPaths \cup {<<".">>, <<"a", SEP, "o">>}

NextInvoke ==
    \/ \E tool \in Tools, filePath \in InvokeInputs,
          outputPath \in InvokeOutputs, strategy \in Strategies,
          imagePath \in InvokeImages :
           StartCall(1, 1, tool, filePath, outputPath, strategy, imagePath)
    \/ \E reply \in Replies, io \in {"ok", "fail"} : Finish(reply, io)

SpecInvoke == Init /\ [][NextInvoke]_vars

(***************************************************************************)
(* Invocations in flight together: execute() is async, so the host may     *)
(* invoke a tool while others are suspended in client.post; each runs      *)
(* from its await to its return without interruption.                      *)
(***************************************************************************)
MaxConcurrent == 2

ConcurrentTools == {"ocr", "extract_text"}
ConcurrentOutputs == {<<"o">>, <<"p">>, CREDITS_FILENAME}
ConcurrentReplies ==
    {Response(402, TRUE, "body", JsonObject(Some("no credits"), None),
              None, None),
     Response(200, FALSE, "pdf", None, Some(1000), Some(50))}

\* a sandbox holding a document and the ledger of an earlier session
InitConcurrent ==
    /\ sandboxDir = SandboxRoot
    /\ creditsFile = LedgerPath(SandboxRoot)
    /\ dirs = AncestorsAndSelf(SandboxRoot)
    /\ files = PutFile(PutFile(<<>>, InputFile, <<Bytes>>),
                       LedgerPath(SandboxRoot), <<RecordText(Earlier), NL>>)
    /\ logged = <<Earlier>>
    /\ now = 0
    /\ balanceRes = NotCalled
    /\ usageRes = NoUsage
    /\ calls = 0
    /\ inflight = <<>>
    /\ last = <<>>
    /\ touched = {}
    /\ IdlePath /\ IdleForm
    /\ apiKey = "key"
    /\ IdleProbe

NextConcurrent ==
    \/ \E tool \in ConcurrentTools, outputPath \in ConcurrentOutputs :
           StartCall(MaxConcurrent, MaxConcurrent, tool, <<"a">>, outputPath,
                     "complete", None)
    \/ \E i \in 1..MaxConcurrent, reply \in ConcurrentReplies,
          io \in {"ok", "fail"} : FinishCall(i, reply, io)

SpecConcurrent == InitConcurrent /\ [][NextConcurrent]_vars

(***************************************************************************)
(* The request nutrient_watermark assembles, from readFileReference to     *)
(* buildFormData: a sandbox that holds, in itself and in its directory d,  *)
(* a file under every name of at most MaxNameLen characters; the document  *)
(* and the image are any two of them or a URL, the image may be left out   *)
(* (a text watermark).                                                     *)
(***************************************************************************)
MaxNameLen == 2

NameChars == {"a", ".", "_"}
FileNames ==
    StringsUpTo(NameChars, MaxNameLen) \ {<<>>, <<".">>, <<".", ".">>}
RequestPaths ==
    FileNames \cup {<<"d", SEP>> \o n : n \in FileNames}
        \cup {HTTP \o <<"u">>}

\* the bytes of the file at p: no two files hold the same
BytesOf(p) == <<[t |-> "x", v |-> Some(p)]>>

RequestFiles ==
    LET paths == {SandboxRoot \o <<SEP>> \o p :
                     p \in RequestPaths \ {HTTP \o <<"u">>}}
    IN  [p \in paths |-> BytesOf(p)]

\* Map.prototype.set(key, ref) on a map kept as its entries in order
MapSet(m, key, ref) ==
    IF \E i \in 1..Len(m) : m[i].k = key
    THEN [i \in 1..Len(m) |-> IF m[i].k = key THEN [k |-> key, ref |-> ref]
                              ELSE m[i]]
    ELSE Append(m, [k |-> key, ref |-> ref])

\* `ref.url ?? ref.key`: what an instruction names a reference by
Pointer(ref) == IF ref.form = "url" THEN ref.loc ELSE ref.key

\* watermarkTool.execute from the image on: the references, the
\* instructions' two pointers and the body
WatermarkBody(fileRef, fileRefs, image) ==
    [fileRefs |-> fileRefs,
     file |-> Pointer(fileRef),
     image |-> image,
     body |-> buildFormData([file |-> Pointer(fileRef), image |-> image],
                            fileRefs)]

WatermarkImage(fileRef, imageRef) ==
    IF ~imageRef.ok THEN imageRef
    ELSE Ok(WatermarkBody(fileRef,
                          MapSet(<<[k |-> fileRef.key, ref |-> fileRef]>>,
                                 imageRef.val.key, imageRef.val),
                          Some(Pointer(imageRef.val))))

WatermarkDocument(d, f, imagePath, sandbox, fileRef) ==
    IF ~fileRef.ok THEN fileRef
    ELSE IF imagePath = None
         THEN Ok(WatermarkBody(fileRef.val,
                               <<[k |-> fileRef.val.key, ref |-> fileRef.val]>>,
                               None))
    ELSE WatermarkImage(fileRef.val,
                        readFileReference(d, f, imagePath[1], sandbox))

\* watermarkTool.execute, from readFileReference to buildFormData
WatermarkRequest(d, f, filePath, imagePath, sandbox) ==
    WatermarkDocument(d, f, imagePath, sandbox,
                      readFileReference(d, f, filePath, sandbox))

InitRequest ==
    /\ sandboxDir = SandboxRoot
    /\ creditsFile = LedgerPath(SandboxRoot)
    /\ dirs = AncestorsAndSelf(SandboxRoot \o <<SEP, "d">>)
    /\ files = RequestFiles
    /\ requestArgs \in [filePath : RequestPaths,
                        imagePath : {None} \cup {Some(p) : p \in RequestPaths}]
    /\ requestRes = NotCalled
    /\ IdlePath /\ IdleForm /\ IdleTool /\ IdleLedger
    /\ apiKey = "key" /\ IdleCheck /\ IdleClient /\ IdleDiffer

\* nutrient_watermark assembles the request of requestArgs
AssembleRequest ==
    /\ ~requestRes.called
    /\ requestRes' = Called(WatermarkRequest(dirs, files, requestArgs.filePath,
                                             requestArgs.imagePath,
                                             sandboxDir))
    /\ UNCHANGED <<apiKey, checkRes, fetchArg, postRes, differArgs, differRes,
                   requestArgs, timer, pathVars, formVars, fsVars, toolVars,
                   ledgerVars>>

NextRequest == AssembleRequest

SpecRequest == InitRequest /\ [][NextRequest]_vars

(***************************************************************************)
(* C1                                                                      *)
(***************************************************************************)
\* The names on the way from the file system's root to p, read off the
\* string: p is in the directory d exactly when d's names start p's.
RECURSIVE NamesOf(_)
NamesOf(p) ==
    IF p = <<>> THEN <<>>
    ELSE IF Head(p) = SEP THEN NamesOf(Tail(p))
    ELSE LET n == CHOOSE k \in 1..Len(p) :
                      /\ \A j \in 1..k : p[j] # SEP
                      /\ (k = Len(p) \/ p[k + 1] = SEP)
         IN  <<SubSeq(p, 1, n)>> \o NamesOf(SubSeq(p, n + 1, Len(p)))

IsCanonical(p) ==
    /\ IsAbsolute(p)
    /\ (Len(p) > 1 => p[Len(p)] # SEP)
    /\ \A i \in 1..Len(p) - 1 : ~(p[i] = SEP /\ p[i + 1] = SEP)
    /\ \A i \in 1..Len(NamesOf(p)) :
           NamesOf(p)[i] \notin {<<".">>, <<".", ".">>}

\* p is the directory d or lies in it, at any depth
InDir(p, d) ==
    /\ Len(NamesOf(d)) <= Len(NamesOf(p))
    /\ SubSeq(NamesOf(p), 1, Len(NamesOf(d))) = NamesOf(d)

\* C1: with a sandbox root configured, resolveReadPath returns a canonical
\* absolute path that is the resolved root or lies under it, or it fails
\* with a FileError; it never returns a path outside the root.
C1_ResolveStaysInSandbox ==
    (pathRes.called /\ rootArg # <<>>) =>
        IF pathRes.res.ok
        THEN /\ IsCanonical(pathRes.res.val)
             /\ InDir(pathRes.res.val, PathResolve1(rootArg))
        ELSE pathRes.res.err = "FileError"

\* A sibling directory whose name has the root's name as a string prefix
\* was asked for and refused.
C1_Witness ==
    /\ pathRes.called /\ rootArg # <<>>
    /\ ~pathRes.res.ok
    /\ PathResolve1(rootArg) # <<SEP>>
    /\ StartsWith(PathResolve2(PathResolve1(rootArg), pathArg),
                  PathResolve1(rootArg))

(***************************************************************************)
(* C2                                                                      *)
(***************************************************************************)
Base == PathResolve1(sandboxDir)

\* the path resolves to a place that is neither the root nor under it
EscapesSandbox(p) == ~InDir(PathResolve2(Base, p), Base)

\* an invocation whose output path escapes writes nothing and fails
EscapingWriteCreatesNothing ==
    \A i \in 1..Len(last) :
        EscapesSandbox(last[i].outputPath) =>
            last[i].wrote = {} /\ ~last[i].success

\* C2 as claimed: every file or directory the plugin has created or
\* written lies under the sandbox root, and a write whose path fails the
\* sandbox check creates no directory and no file.
C2_Original ==
    /\ \A p \in touched : InDir(p, Base)
    /\ EscapingWriteCreatesNothing

\* C2 amended: every file or directory the plugin has created or written
\* is the sandbox root, lies under it, or is a directory on the way to the
\* root that was missing (resolveWritePath creates the parent of the output
\* with every missing ancestor, those of a root that does not exist yet
\* included); a write whose path fails the sandbox check creates no
\* directory and no file.
C2_WritesInSandboxOrOnTheWayToIt ==
    /\ \A p \in touched :
           \/ InDir(p, Base)
           \/ p \in AncestorsAndSelf(Base) /\ p \in dirs
    /\ EscapingWriteCreatesNothing

\* A tool given a URL wrote its output and the ledger into a sandbox that
\* did not exist, and made the root's parent on the way.
C2_Witness ==
    /\ Len(last) = 1 /\ last[1].success
    /\ \E p \in touched : ~InDir(p, Base)
    /\ creditsFile \in touched
    /\ \E p \in touched : p \in DOMAIN files /\ p # creditsFile /\ InDir(p, Base)

(***************************************************************************)
(* C3, C4                                                                  *)
(***************************************************************************)
AllUrlForm(m) == \A i \in 1..Len(m) : m[i].ref.form = "url"
SomeLocalForm(m) == \E i \in 1..Len(m) : m[i].ref.form = "file"

ReturnsInstructionsUnmodified ==
    /\ formRes.res.kind = "json"
    /\ formRes.res.body = refsArg.instructions

FieldsNamed(name) ==
    {i \in 1..Len(formRes.res.fields) : formRes.res.fields[i].name = name}

\* C4 as claimed: with at least one local-form reference the result is a
\* multipart body with exactly one field named `instructions` (the
\* serialized instructions), exactly one field per local-form reference
\* (named by its map key, carrying its bytes and file name), and no file
\* field for a URL-form reference.
C4_Original ==
    (formRes.called /\ SomeLocalForm(refsArg.fileRefs)) =>
        /\ formRes.res.kind = "formdata"
        /\ Cardinality(FieldsNamed(INSTRUCTIONS)) = 1
        /\ \A i \in FieldsNamed(INSTRUCTIONS) :
               formRes.res.fields[i] =
                   Field(INSTRUCTIONS, Stringify(refsArg.instructions), Null)
        /\ \A j \in 1..Len(refsArg.fileRefs) :
               LET e == refsArg.fileRefs[j]
               IN  IF e.ref.form = "file"
                   THEN /\ Cardinality(FieldsNamed(e.k)) = 1
                        /\ \A i \in FieldsNamed(e.k) :
                               formRes.res.fields[i] =
                                   Field(e.k, e.ref.buffer, e.ref.name)
                   ELSE \A i \in FieldsNamed(e.k) :
                            formRes.res.fields[i].filename = Null

(***************************************************************************)
(* C5, C6                                                                  *)
(***************************************************************************)
\* C5 as claimed: every record appended to the ledger is still in the
\* store, unchanged and at its position, whatever tools were invoked with
\* paths inside the sandbox: the stored sequence only grows by suffix.
C5_Original ==
    LET stored == readEntries(dirs, files, creditsFile)
    IN  /\ Len(stored) >= Len(logged)
        /\ SubSeq(stored, 1, Len(logged)) = logged

\* C6 as claimed: a remote operation that got a successful response, and
\* so returned success, appended exactly one ledger entry for the call
\* before it returned.
C6_Original ==
    \A i \in 1..Len(last) : last[i].success => last[i].appended = 1

(***************************************************************************)
(* C7 - C10                                                                *)
(***************************************************************************)
HasBalance(e) == e.remainingCredits # None

\* C7: getBalance() returns {remaining, asOf} of the most recently appended
\* entry that carries a remainingCredits (later entries without one are
\* skipped), and null when no entry carries one, an empty or missing
\* ledger included.
C7_BalanceIsLatestKnown ==
    balanceRes.called =>
        LET known == {i \in 1..Len(logged) : HasBalance(logged[i])}
        IN  IF known = {}
            THEN ~balanceRes.res.found
            ELSE LET i == CHOOSE j \in known : \A k \in known : k <= j
                 IN  /\ balanceRes.res.found
                     /\ balanceRes.res.remaining = logged[i].remainingCredits[1]
                     /\ balanceRes.res.asOf = logged[i].timestamp[1]

\* getBalance() passed over the newest entry, which carries no balance,
\* and over a corrupt line, and answered from an older entry than the
\* first one that carries a balance.
C7_Witness ==
    /\ balanceRes.called /\ balanceRes.res.found
    /\ Len(logged) >= 3
    /\ ~HasBalance(logged[Len(logged)])
    /\ HasBalance(logged[1]) /\ HasBalance(logged[2])
    /\ logged[1].remainingCredits # logged[2].remainingCredits

\* C8 as claimed: with N entries appended through log(), with or without a
\* timestamp of the caller's, getUsage('all') returns totalOperations = N
\* and totalCredits = round2 of their total cost.
C8_Original ==
    (usageRes.called /\ usageRes.period = "all") =>
        /\ usageRes.res.totalOperations = Len(logged)
        /\ usageRes.res.totalCredits = round2(SumCost(logged))

NotAfterNow(e) == e.timestamp[1] >= 0 /\ e.timestamp[1] <= now

\* the entries of the ledger inside the window a getUsage result reports
InReportedWindow(e) ==
    /\ e.timestamp[1] >= usageRes.res.period.start
    /\ e.timestamp[1] <= usageRes.res.period.end

WindowEntries == SelectSeq(logged, InReportedWindow)

EntriesOf(operation) ==
    SelectSeq(WindowEntries, LAMBDA e : e.operation = operation)

RowsOf(operation) ==
    {i \in 1..Len(usageRes.res.breakdown) :
        usageRes.res.breakdown[i].operation = operation}

\* one group per operation in the window, with its count and rounded sum
GroupsCountAndCost ==
    /\ Len(usageRes.res.breakdown) =
           Cardinality({WindowEntries[i].operation : i \in 1..Len(WindowEntries)})
    /\ \A i \in 1..Len(WindowEntries) :
           LET op == WindowEntries[i].operation
           IN  /\ Cardinality(RowsOf(op)) = 1
               /\ \A r \in RowsOf(op) :
                      /\ usageRes.res.breakdown[r].count = Len(EntriesOf(op))
                      /\ usageRes.res.breakdown[r].credits =
                             round2(SumCost(EntriesOf(op)))

\* C9 as claimed: one group per operation in the window, count and cost as
\* above, and avgCost = the group's reported (rounded) cost divided by its
\* count, rounded to 2 decimals.
C9_Original ==
    usageRes.called =>
        /\ GroupsCountAndCost
        /\ \A r \in 1..Len(usageRes.res.breakdown) :
               LET row == usageRes.res.breakdown[r]
               IN  row.avgCost = Round2Ratio(10 * row.credits, row.count)

\* C9 amended: one group per operation in the window; count is the number
\* of its entries, cost the sum of their costs rounded to 2 decimals, and
\* avgCost the unrounded sum of their costs divided by the count, rounded
\* to 2 decimals.
C9_GroupsAndAverageOfExactSum ==
    usageRes.called =>
        /\ GroupsCountAndCost
        /\ \A r \in 1..Len(usageRes.res.breakdown) :
               LET row == usageRes.res.breakdown[r]
               IN  row.avgCost =
                       Round2Ratio(SumCost(EntriesOf(row.operation)), row.count)

\* A group of two entries of 0.014 credits: cost 0.03, avgCost 0.01, where
\* 0.03 / 2 rounds to 0.02; and a second group beside it.
C9_Witness ==
    /\ usageRes.called
    /\ Len(usageRes.res.breakdown) = 2
    /\ \E r \in 1..2 :
           /\ usageRes.res.breakdown[r].count = 2
           /\ usageRes.res.breakdown[r].credits = 3
           /\ usageRes.res.breakdown[r].avgCost = 1

\* the ledger file as log() alone would have left it
RECURSIVE TextOf(_)
TextOf(records) ==
    IF records = <<>> THEN <<>>
    ELSE <<RecordText(Head(records)), NL>> \o TextOf(Tail(records))

WithoutCorruptLines ==
    IF creditsFile \in DOMAIN files
    THEN PutFile(files, creditsFile, TextOf(logged))
    ELSE files

\* a corrupt line stands between two records
CorruptLineBetweenRecords ==
    \E i, j, k \in 1..Len(LedgerContent) :
        /\ i < j /\ j < k
        /\ LedgerContent[i].t = "rec"
        /\ LedgerContent[j].t = "x"
        /\ LedgerContent[k].t = "rec"

\* C10: lines that do not parse are skipped and the rest is read: with
\* corrupt lines anywhere among the records, getUsage('all') and
\* getBalance() answer exactly as on the same file without those lines,
\* and getUsage('all') counts every record up to now.
C10_CorruptLinesAreSkipped ==
    /\ (usageRes.called /\ usageRes.period = "all") =>
           /\ usageRes.res =
                  getUsage(dirs, WithoutCorruptLines, creditsFile, "all", now)
           /\ usageRes.res.totalOperations = Len(SelectSeq(logged, NotAfterNow))
    /\ balanceRes.called =>
           balanceRes.res = getBalance(dirs, WithoutCorruptLines, creditsFile)

\* getUsage('all') counted the two records around a corrupt line.
C10_Witness ==
    /\ usageRes.called /\ usageRes.period = "all"
    /\ CorruptLineBetweenRecords
    /\ usageRes.res.totalOperations = 2


StoredRecordsStay ==
    LET before == readEntries(dirs, files, creditsFile)
        after == readEntries(dirs', files', creditsFile)
    IN  /\ Len(after) >= Len(before)
        /\ SubSeq(after, 1, Len(before)) = before

\* C12 as claimed: while invocations sharing the ledger are in flight
\* together, no step of any of them loses, splits or overwrites a stored
\* record: the records the ledger held stay, unchanged and in place, and
\* the ledger only grows by whole records.
C12_Original ==
    [][Len(inflight) >= 2 => StoredRecordsStay]_vars


(***************************************************************************)
(* C13                                                                     *)
(***************************************************************************)
\* C13: an invocation whose transport call failed, was answered with a
\* non-success status or was aborted by its timer has created and
\* modified nothing (neither the output path nor a directory on the way to
\* it, nor the ledger) and has failed.
C13_NoWriteWithoutSuccessfulResponse ==
    \A i \in 1..Len(last) :
        last[i].transport \in {"network", "status", "abort"} =>
            /\ last[i].wrote = {}
            /\ last[i].appended = 0
            /\ ~last[i].success

\* An invocation of a tool that writes was aborted by its timer, and the
\* output path it named does not exist.
C13_Witness ==
    /\ Len(last) = 1
    /\ last[1].transport = "abort"
    /\ WritesOutput(last[1].tool)
    /\ resolveReadPath(last[1].outputPath, sandboxDir).ok
    /\ resolveReadPath(last[1].outputPath, sandboxDir).val \notin DOMAIN files
    /\ touched = {}

(***************************************************************************)
(* C14                                                                     *)
(***************************************************************************)
\* a promise resolved to a ToolResponse with the text its success calls for
WellFormed(response) ==
    /\ response.settled = "resolved"
    /\ response.success => response.output # None
    /\ ~response.success => response.error # None

\* C14: whatever the arguments (a missing filePath included) and whatever
\* failed (the file system, the transport, the configuration), the promise
\* of a tool's execute has resolved to a ToolResponse that carries an
\* output when success is true and an error when success is false.
C14_ExecuteIsTotal ==
    /\ \A i \in 1..Len(last) : WellFormed(last[i].response)
    /\ checkRes.called => WellFormed(checkRes.res)

\* A tool was invoked without a filePath: the TypeError was caught and the
\* invocation resolved to a failure with an error text.
C14_Witness ==
    /\ Len(last) = 1
    /\ last[1].transport = "uncalled"
    /\ ~last[1].success
    /\ last[1].response.error = Some(<<"Unexpected error: ", "message">>)

(***************************************************************************)
(* C15                                                                     *)
(***************************************************************************)
\* the error text starts with a kind prefix
HasKindPrefix(error) ==
    \/ /\ Len(error) >= 3
       /\ error[1] = "API error ("
       /\ error[3] = "): "
    \/ error[1] \in {"File error: ", "Configuration error: ",
                     "Unexpected error: "}

\* C15 as claimed: the error of every failure response of any of the ten
\* tools starts with "API error (<status>): ", "File error: ",
\* "Configuration error: " or "Unexpected error: ".
C15_Original ==
    /\ \A i \in 1..Len(last) :
           ~last[i].success => HasKindPrefix(last[i].response.error[1])
    /\ (checkRes.called /\ ~checkRes.res.success) =>
           HasKindPrefix(checkRes.res.error[1])

(***************************************************************************)
(* C16                                                                     *)
(***************************************************************************)
\* the error text of the invocation that returned last
LastError(i) == last[i].response.error[1]

C17_Original ==
    inflight # <<>> ~> inflight = <<>>

(***************************************************************************)
(* C18                                                                     *)
(***************************************************************************)
\* C18: a plugin registered without an API key offers its tools all the
\* same.  No request is ever sent; an invocation of a remote tool fails,
\* with the "Configuration error: " text once it came as far as
\* client.post, and has written no file and appended no ledger record;
\* nutrient_check_credits answers its 'balance' and 'usage' actions.
C18_MissingKeySurfacesOnInvocation ==
    apiKey = "" =>
        /\ inflight = <<>>
        /\ touched = {}
        /\ \A i \in 1..Len(last) :
               /\ ~last[i].success
               /\ last[i].wrote = {}
               /\ last[i].appended = 0
               /\ last[i].transport \in {"uncalled", "unsent"}
               /\ last[i].transport = "unsent" =>
                      last[i].response.error =
                          Some(<<"Configuration error: ", "message">>)
        /\ (balanceRes.called \/ usageRes.called) =>
               checkRes.called /\ checkRes.res.success

\* Without a key, a tool given an existing document and an output path
\* in the sandbox failed with the configuration error.
C18_Witness ==
    /\ apiKey = ""
    /\ Len(last) = 1
    /\ last[1].transport = "unsent"
    /\ WritesOutput(last[1].tool)
    /\ last[1].response.error[1][1] = "Configuration error: "
    /\ InputFile \in DOMAIN files

(***************************************************************************)
(* C19                                                                     *)
(***************************************************************************)
\* where p leads: against the resolved root, or against the working
\* directory when no sandbox is configured
Target(p, r) ==
    IF r = <<>> THEN PathResolve1(p) ELSE PathResolve2(PathResolve1(r), p)

\* p resolves under r: it is a path the sandbox check lets through
Resolves(p, r) == resolveReadPath(p, r).ok

\* C19: assertOutputDiffersFromInput(x, x, r) fails for every x and r;
\* assertOutputDiffersFromInput(x, y, r) returns for x and y that resolve
\* under r to distinct paths; and it fails with a FileError for any two
\* strings that lead to the same absolute path, equal or not.  It fails in
\* no other case than these: the paths lead to the same place, or one of
\* them does not pass the sandbox check.
C19_SamePathFailsDistinctPasses ==
    differRes.called =>
        LET x == differArgs.input
            y == differArgs.output
            r == differArgs.root
        IN  /\ x = y => ~differRes.res.ok
            /\ (/\ Resolves(x, r) /\ Resolves(y, r)
                /\ Target(x, r) # Target(y, r)) => differRes.res.ok
            /\ Target(x, r) = Target(y, r) =>
                   ~differRes.res.ok /\ differRes.res.err = "FileError"
            /\ ~differRes.res.ok =>
                   \/ Target(x, r) = Target(y, r)
                   \/ ~Resolves(x, r)
                   \/ ~Resolves(y, r)

\* Two different strings that lead to one file inside the sandbox were
\* refused.
C19_Witness ==
    /\ differRes.called
    /\ differArgs.root # <<>>
    /\ differArgs.input # differArgs.output
    /\ Resolves(differArgs.input, differArgs.root)
    /\ Target(differArgs.input, differArgs.root) =
           Target(differArgs.output, differArgs.root)
    /\ Target(differArgs.input, differArgs.root) # PathResolve1(differArgs.root)
    /\ ~differRes.res.ok


(***************************************************************************)
(* C20                                                                     *)
(***************************************************************************)
\* the message the claim's precedence picks for a response: the `details`
\* of a JSON error body, else its `message`, else the raw text of the body
MessageByPrecedence(res) ==
    IF res.parsed # None /\ res.parsed[1].details # None
    THEN <<res.parsed[1].details[1]>>
    ELSE IF res.parsed # None /\ res.parsed[1].message # None
         THEN <<res.parsed[1].message[1]>>
    ELSE <<res.text>>

\* C20 as claimed: for every non-success response post throws an API error
\* with the status of the response, the cost header when the response has
\* one, and the message picked by precedence: details, else message, else
\* the raw body text (whatever the message for a response without a body).
C20_Original ==
    (postRes.called /\ fetchArg.reply.kind = "response" /\ ~fetchArg.reply.ok) =>
        /\ ~postRes.res.ok
        /\ postRes.res.err = "NutrientApiError"
        /\ postRes.res.val.status = fetchArg.reply.status
        /\ postRes.res.val.creditsUsed = fetchArg.reply.usage
        /\ fetchArg.reply.text # "" =>
               postRes.res.val.message = MessageByPrecedence(fetchArg.reply)

(***************************************************************************)
(* C21                                                                     *)
(***************************************************************************)
\* C21 as claimed: post returns each billing header of a response as the
\* number it carries, 0 included, and as null when the header is absent:
\* creditsUsed and creditsRemaining of a successful call, and the
\* creditsUsed of the API error of a failed one, are the headers' values.
C21_Original ==
    (postRes.called /\ fetchArg.reply.kind = "response") =>
        IF fetchArg.reply.ok
        THEN /\ postRes.res.ok
             /\ postRes.res.val.creditsUsed = fetchArg.reply.usage
             /\ postRes.res.val.creditsRemaining = fetchArg.reply.remaining
        ELSE /\ ~postRes.res.ok
             /\ postRes.res.val.creditsUsed = fetchArg.reply.usage

(***************************************************************************)
(* C22                                                                     *)
(***************************************************************************)
\* the input is a URL: readFileReference passes it on unread
IsUrl(p) == StartsWith(p, HTTP) \/ StartsWith(p, HTTPS)

\* the tools that post to the build endpoint
BuildTools == Tools \ {"sign", "ai_redact"}

\* C22 as claimed: a build-endpoint tool given a URL, '..' segments in it
\* or not, is never refused on account of its input: with an output path
\* that resolves in the sandbox, the invocation comes as far as
\* client.post.
C22_Original ==
    \A i \in 1..Len(last) :
        (/\ last[i].tool \in BuildTools
         /\ IsUrl(last[i].filePath)
         /\ resolveReadPath(last[i].outputPath, sandboxDir).ok) =>
            last[i].transport # "uncalled"

(***************************************************************************)
(* C23                                                                     *)
(***************************************************************************)
\* the local file the path names in the sandbox is there and is regular
IsRegularFileInSandbox(p) ==
    /\ InDir(Target(p, sandboxDir), Base)
    /\ Target(p, sandboxDir) \in DOMAIN files

\* The local preconditions of an invocation c: the strategy of redact has
\* its field, the input is a URL or a regular file in the sandbox, so is
\* an image (a URL only for watermark), and the output of a tool that
\* writes resolves in the sandbox to another path than the input.
LocalPreconditions(c) ==
    /\ c.strategy # "incomplete"
    /\ c.filePath # Undefined
    /\ IsUrl(c.filePath) \/ IsRegularFileInSandbox(c.filePath)
    /\ c.imagePath # None =>
           \/ IsRegularFileInSandbox(c.imagePath[1])
           \/ c.tool = "watermark" /\ IsUrl(c.imagePath[1])
    /\ WritesOutput(c.tool) =>
           /\ InDir(Target(c.outputPath, sandboxDir), Base)
           /\ Target(c.outputPath, sandboxDir) # Target(c.filePath, sandboxDir)

\* C23: client.post is called only for an invocation whose local
\* preconditions hold.  An invocation whose input is missing, is not a
\* regular file or leaves the sandbox, whose output leaves the sandbox or
\* is the input, or whose redact strategy lacks its field, is neither in
\* flight nor has it returned from a call of post.
C23_PreconditionsBeforeTransport ==
    /\ \A i \in 1..Len(inflight) : LocalPreconditions(inflight[i])
    /\ \A i \in 1..Len(last) :
           last[i].transport # "uncalled" => LocalPreconditions(last[i])

\* An invocation named a document that is not there and failed without a
\* call of post.
C23_Witness ==
    /\ Len(last) = 1
    /\ last[1].transport = "uncalled"
    /\ last[1].filePath = <<"a">>
    /\ ~IsRegularFileInSandbox(last[1].filePath)
    /\ last[1].strategy # "incomplete"
    /\ WritesOutput(last[1].tool)
    /\ last[1].outputPath = <<"o">>

(***************************************************************************)
(* C24: nutrient_ai_redact and nutrient_sign reject URL inputs.            *)
(***************************************************************************)
\* the messages that name the local-file requirement
LocalFileMessages ==
    {"Signing requires a local file, not a URL",
     "AI redaction requires a local file, not a URL",
     "Watermark image must be a local file"}

\* invocation c of sign or ai_redact names a URL as its document, or, for
\* sign, as its image
UrlGiven(c) ==
    /\ c.tool \in {"sign", "ai_redact"}
    /\ \/ IsUrl(c.filePath)
       \/ c.imagePath # None /\ IsUrl(c.imagePath[1])

NamesLocalFileRequirement(response) ==
    /\ response.settled = "resolved"
    /\ ~response.success
    /\ \E m \in LocalFileMessages : response.error = Some(<<"File error: ", m>>)

\* C24 as stated: every invocation of sign or ai_redact with a URL as its
\* document (for sign, also as its image) returns success: false with a
\* message naming the local-file requirement and never calls the
\* transport, and every transport call of ai_redact has the 300000 ms
\* timeout.
C24_Original ==
    /\ \A i \in 1..Len(last) :
           UrlGiven(last[i]) =>
               /\ last[i].transport = "uncalled"
               /\ NamesLocalFileRequirement(last[i].response)
    /\ \A i \in 1..Len(inflight) :
           /\ ~UrlGiven(inflight[i])
           /\ inflight[i].tool = "ai_redact" =>
                  inflight[i].timeout = Some(300000)

\* What else execute() checks before it looks at the form of a reference:
\* the document and the output resolve inside the sandbox to two paths, and
\* a document that is not a URL is a regular file.
ChecksBeforeForm(c) ==
    /\ c.filePath # Undefined
    /\ resolveReadPath(c.filePath, sandboxDir).ok
    /\ resolveReadPath(c.outputPath, sandboxDir).ok
    /\ Target(c.outputPath, sandboxDir) # Target(c.filePath, sandboxDir)
    /\ IsUrl(c.filePath) \/ IsRegularFileInSandbox(c.filePath)

\* C24: every invocation of sign or ai_redact with a URL as its document
\* (for sign, also as its image) resolves with success: false and never
\* calls the transport; its message names the local-file requirement when
\* the checks made before the form of a reference is looked at pass, and
\* is the message of the check that failed otherwise.  Every transport
\* call of ai_redact has the timeout AI_REDACT_TIMEOUT_MS.
C24_UrlRejectedBeforeTransport ==
    /\ \A i \in 1..Len(last) :
           UrlGiven(last[i]) =>
               /\ last[i].transport = "uncalled"
               /\ last[i].response.settled = "resolved"
               /\ ~last[i].response.success
               /\ ChecksBeforeForm(last[i]) =>
                      NamesLocalFileRequirement(last[i].response)
    /\ \A i \in 1..Len(inflight) :
           /\ ~UrlGiven(inflight[i])
           /\ inflight[i].tool = "ai_redact" =>
                  inflight[i].timeout = Some(AI_REDACT_TIMEOUT_MS)

\* ai_redact was given a URL and refused it with its own message, before
\* any call of post.
C24_Witness ==
    /\ Len(last) = 1
    /\ last[1].tool = "ai_redact"
    /\ last[1].filePath = HTTP \o <<"u">>
    /\ last[1].transport = "uncalled"
    /\ last[1].response.error =
           Some(<<"File error: ",
                  "AI redaction requires a local file, not a URL">>)

(***************************************************************************)
(* C25: the keys of one request's references are unique.                   *)
(***************************************************************************)
\* the local files among the document and the image of the request
LocalFilesOf(args) ==
    {Target(p, sandboxDir) :
        p \in {q \in {args.filePath} \cup
                     (IF args.imagePath = None THEN {}
                      ELSE {args.imagePath[1]}) : ~IsUrl(q)}}

FileFieldsOf(body) ==
    {i \in 1..Len(body.fields) : body.fields[i].name # INSTRUCTIONS}

\* C25 as stated: a request assembled from two distinct input files has
\* two references under two keys, its body carries one field per local
\* file, and the document's pointer names the document.
C25_Original ==
    (requestRes.called /\ requestRes.res.ok) =>
        LET r == requestRes.res.val
        IN  /\ Cardinality({r.fileRefs[i].k : i \in 1..Len(r.fileRefs)})
                   >= Cardinality(LocalFilesOf(requestArgs))
            /\ r.body.kind = "formdata" =>
                   Cardinality(FileFieldsOf(r.body))
                       = Cardinality(LocalFilesOf(requestArgs))
            /\ \A i \in 1..Len(r.fileRefs) :
                   (r.fileRefs[i].k = r.file /\ ~IsUrl(requestArgs.filePath))
                       => r.fileRefs[i].ref.loc
                              = Target(requestArgs.filePath, sandboxDir)

(***************************************************************************)
(* C26: the window of getUsage(period).                                    *)
(***************************************************************************)
\* the start of the period that ends at the instant `end`: the midnight of
\* end's day, 7 or 30 days before end, the epoch
StartOf(period, end) ==
    CASE period = "day"   -> CHOOSE t \in 0..end :
                                 t % DayTicks = 0 /\ end - t < DayTicks
      [] period = "week"  -> end - 7 * DayTicks
      [] period = "month" -> end - 30 * DayTicks
      [] period = "all"   -> 0

\* the appended records a call of getUsage(period) at `end` is to count
InWindow(period, end) ==
    SelectSeq(logged,
              LAMBDA e : /\ StartOf(period, end) <= e.timestamp[1]
                         /\ e.timestamp[1] <= end)

\* C26: getUsage(period), called at the instant `now`, reports the range
\* from the period's start to now and counts exactly the appended entries
\* whose timestamp t has start <= t <= now, both ends included.
C26_WindowIsInclusive ==
    usageRes.called =>
        /\ usageRes.res.period =
               [start |-> StartOf(usageRes.period, now), end |-> now]
        /\ usageRes.res.totalOperations = Len(InWindow(usageRes.period, now))
        /\ usageRes.res.totalCredits
               = round2(SumCost(InWindow(usageRes.period, now)))

\* getUsage('day') was called on the second day with an entry of the day
\* before and an entry of the call instant appended: it counted the second
\* and not the first.
C26_Witness ==
    /\ usageRes.called
    /\ usageRes.period = "day"
    /\ now = DayTicks
    /\ \E i, j \in 1..Len(logged) :
           /\ logged[i].timestamp[1] < DayTicks
           /\ logged[j].timestamp[1] = now
    /\ Len(logged) = 2
    /\ usageRes.res.totalOperations = 1

(***************************************************************************)
(* C27: the order of the breakdown.                                        *)
(***************************************************************************)
\* where `operation` first appears among the entries
FirstAppearance(operation, entries) ==
    CHOOSE i \in 1..Len(entries) :
        /\ entries[i].operation = operation
        /\ \A j \in 1..(i - 1) : entries[j].operation # operation

\* C27: in every getUsage result each group of the breakdown costs at
\* least as much as the next one, and of two neighbours that cost the same
\* the earlier is the one whose operation appeared first among the counted
\* entries.
C27_BreakdownByCostThenAppearance ==
    usageRes.called =>
        LET b == usageRes.res.breakdown
            counted == InWindow(usageRes.period, now)
        IN  \A i \in 1..(Len(b) - 1) :
                /\ b[i].credits >= b[i + 1].credits
                /\ b[i].credits = b[i + 1].credits =>
                       FirstAppearance(b[i].operation, counted)
                           < FirstAppearance(b[i + 1].operation, counted)

\* Three operations were counted, the dearest appended last: it comes
\* first in the breakdown, before two groups of the same cost.
C27_Witness ==
    /\ usageRes.called
    /\ Len(usageRes.res.breakdown) = 3
    /\ usageRes.res.breakdown[1].credits > usageRes.res.breakdown[2].credits
    /\ usageRes.res.breakdown[2].credits = usageRes.res.breakdown[3].credits
    /\ logged[3].operation = usageRes.res.breakdown[1].operation

(***************************************************************************)
(* C29: the totals of a usage summary against its breakdown.               *)
(***************************************************************************)
RECURSIVE SumOf(_, _)
SumOf(rows, field) ==
    IF rows = <<>> THEN 0 ELSE Head(rows)[field] + SumOf(Tail(rows), field)

\* C29 as stated: in every getUsage result totalOperations is the sum of
\* the breakdown counts and totalCredits is the sum of the breakdown
\* credits values.
C29_Original ==
    usageRes.called =>
        /\ usageRes.res.totalOperations = SumOf(usageRes.res.breakdown, "count")
        /\ usageRes.res.totalCredits = SumOf(usageRes.res.breakdown, "credits")

\* C29: in every getUsage result totalOperations is the sum of the
\* breakdown counts, and totalCredits is the total of the counted entries'
\* costs rounded to two decimals once: it differs from the sum of the
\* breakdown credits, each rounded on its own, by at most half a hundredth
\* for each group and half a hundredth for the total.
C29_TotalsOfCountedEntries ==
    usageRes.called =>
        LET b == usageRes.res.breakdown
            counted == InWindow(usageRes.period, now)
        IN  /\ usageRes.res.totalOperations = SumOf(b, "count")
            /\ usageRes.res.totalCredits = round2(SumOf(counted, "requestCost"))
            /\ 2 * (usageRes.res.totalCredits - SumOf(b, "credits")) <= Len(b) + 1
            /\ 2 * (SumOf(b, "credits") - usageRes.res.totalCredits) <= Len(b) + 1

\* Two operations at 0.014 credits each were counted: the total is 0.03
\* and the two groups show 0.01 each.
C29_Witness ==
    /\ usageRes.called
    /\ Len(usageRes.res.breakdown) = 2
    /\ usageRes.res.totalOperations = 2
    /\ usageRes.res.totalCredits = 3
    /\ SumOf(usageRes.res.breakdown, "credits") = 2

(***************************************************************************)
(* C28: a failed invocation leaves no trace.                               *)
(***************************************************************************)
\* the step is the end of an invocation that returned success: false
ReturnsFailure ==
    /\ calls' # calls \/ inflight' # inflight
    /\ last' # <<>>
    /\ ~last'[1].success

C30_NoTimerOutlivesPost ==
    postRes.called => timer \in {"unset", "cleared"}

\* post armed a timer, fetch rejected with a network error, and post threw
\* it on with the timer cleared.
C30_Witness ==
    /\ postRes.called
    /\ fetchArg.timeout # None
    /\ fetchArg.reply.kind = "network"
    /\ ~postRes.res.ok
    /\ timer = "cleared"
=============================================================================
